---- MODULE Spec2Model ----
(***************************************************************************)
(* Spatial regression notebooks: the spatial multiplier calculations of    *)
(* the "Spatial Multipliers" notebook (8_spatial_multipliers.ipynb) and    *)
(* the distance-decay kernels of the "Kernel" section of                   *)
(* 2_data_input_output.ipynb.                                              *)
(*                                                                         *)
(* Real numbers are exact rationals <<num, den>> in lowest terms with a    *)
(* positive denominator.  A vector is a tuple of N values, a matrix a      *)
(* tuple of N rows.                                                        *)
(***************************************************************************)
EXTENDS Integers, Sequences, FiniteSets, TLC

(***************************************************************************)
(* Bounds of the model.                                                    *)
(***************************************************************************)
N == 4            \* number of spatial units of the data set
MaxLinks == 5     \* total number of neighbour links of a directed neighbour list

Units == 1..N

(***************************************************************************)
(* Exact rational arithmetic.                                              *)
(***************************************************************************)
Abs(x) == IF x < 0 THEN -x ELSE x

RECURSIVE Gcd(_, _)
Gcd(a, b) == IF b = 0 THEN a ELSE Gcd(b, a % b)

Lcm(a, b) == (a \div Gcd(a, b)) * b

Rat(n, d) ==
    LET g == Gcd(Abs(n), Abs(d))
        s == IF d < 0 THEN -1 ELSE 1
    IN  <<s * (n \div g), s * (d \div g)>>

Zero == <<0, 1>>
One == <<1, 1>>

RAdd(x, y) == Rat(x[1] * y[2] + y[1] * x[2], x[2] * y[2])
RSub(x, y) == Rat(x[1] * y[2] - y[1] * x[2], x[2] * y[2])
RMul(x, y) == Rat(x[1] * y[1], x[2] * y[2])
RDiv(x, y) == Rat(x[1] * y[2], x[2] * y[1])

\* sign of a/b - c/d for b, d > 0, by comparing integer parts and then the
\* reciprocals of the fractional parts (no cross product is formed)
RECURSIVE Cmp(_, _, _, _)
Cmp(a, b, c, d) ==
    LET qa == a \div b
        qc == c \div d
        ra == a % b
        rc == c % d
    IN  IF qa < qc THEN -1
        ELSE IF qa > qc THEN 1
        ELSE IF ra = 0 /\ rc = 0 THEN 0
        ELSE IF ra = 0 THEN -1
        ELSE IF rc = 0 THEN 1
        ELSE Cmp(d, rc, b, ra)

RLt(x, y) == Cmp(x[1], x[2], y[1], y[2]) < 0
RLe(x, y) == Cmp(x[1], x[2], y[1], y[2]) <= 0

RECURSIVE LcmDen(_, _)
LcmDen(f, k) == IF k = 0 THEN 1 ELSE Lcm(LcmDen(f, k - 1), f[k][2])

RECURSIVE NumSum(_, _, _)
NumSum(f, k, L) ==
    IF k = 0 THEN 0 ELSE NumSum(f, k - 1, L) + f[k][1] * (L \div f[k][2])

\* sum of the rationals f[1..k], over the least common denominator
RSum(f, k) == LET L == LcmDen(f, k) IN Rat(NumSum(f, k, L), L)

RECURSIVE ISum(_, _)
ISum(f, k) == IF k = 0 THEN 0 ELSE ISum(f, k - 1) + f[k]

(***************************************************************************)
(* Dense linear algebra on integer matrices: determinant by expansion      *)
(* along the first row, cofactors, and from them the exact inverse.        *)
(***************************************************************************)
\* the tuple <<F(1), ..., F(k)>>, and the N x N matrix of the values F(i, j)
RECURSIVE SeqOf(_, _)
SeqOf(F(_), k) == IF k = 0 THEN <<>> ELSE Append(SeqOf(F, k - 1), F(k))

Vec(F(_)) == SeqOf(F, N)
Mat(F(_, _)) == SeqOf(LAMBDA i : SeqOf(LAMBDA j : F(i, j), N), N)

RemoveAt(s, k) == [i \in 1..(Len(s) - 1) |-> IF i < k THEN s[i] ELSE s[i + 1]]

RECURSIVE Det(_, _, _)
RECURSIVE DetRow(_, _, _, _)
Det(B, rs, cs) == IF Len(rs) = 0 THEN 1 ELSE DetRow(B, rs, cs, Len(cs))
DetRow(B, rs, cs, k) ==
    IF k = 0 THEN 0
    ELSE DetRow(B, rs, cs, k - 1)
         + (IF B[rs[1]][cs[k]] = 0 THEN 0
            ELSE (IF k % 2 = 1 THEN 1 ELSE -1) * B[rs[1]][cs[k]]
                 * Det(B, Tail(rs), RemoveAt(cs, k)))

Idx(n) == SeqOf(LAMBDA i : i, n)

Cof(B, n, i, j) ==
    (IF (i + j) % 2 = 0 THEN 1 ELSE -1)
      * Det(B, RemoveAt(Idx(n), i), RemoveAt(Idx(n), j))

(***************************************************************************)
(* Spatial weights.  The weights builders (contiguity, nearest neighbours)  *)
(* return a raw 0/1 matrix with a zero diagonal; wq.transform = 'r' turns   *)
(* it into its row-standardized form.                                       *)
(***************************************************************************)
Pairs == {e \in Units \X Units : e[1] < e[2]}

\* symmetric contiguity relations (a unit without neighbours is an island)
Contiguity ==
    { Mat(LAMBDA i, j : IF <<i, j>> \in E \/ <<j, i>> \in E THEN 1 ELSE 0) :
        E \in SUBSET Pairs }

\* the unit d places after unit i, counting around 1..N
Shift(i, d) == ((i + d - 1) % N) + 1

RECURSIVE CardSum(_, _)
CardSum(D, k) == IF k = 0 THEN 0 ELSE CardSum(D, k - 1) + Cardinality(D[k])

\* directed neighbour lists: every unit lists at least one other unit
NeighbourLists ==
    { Mat(LAMBDA i, j : IF \E d \in D[i] : Shift(i, d) = j THEN 1 ELSE 0) :
        D \in { F \in [Units -> (SUBSET (1..(N - 1))) \ {{}}] :
                  CardSum(F, N) <= MaxLinks } }

WeightsFamily == Contiguity \cup NeighbourLists

RowSum(A, i) == ISum(A[i], N)

Raw(A) == Mat(LAMBDA i, j : <<A[i][j], 1>>)

ColSum(A, j) == ISum(Vec(LAMBDA r : A[r][j]), N)

\* a standardization that divides by the column sum instead of the row sum
RowStandardize_byColumn(A) ==
    Mat(LAMBDA i, j : IF ColSum(A, j) = 0 THEN Zero ELSE Rat(A[i][j], ColSum(A, j)))

\* a standardization that divides every row by the number of other units
RowStandardize_byCount(A) ==
    Mat(LAMBDA i, j : Rat(A[i][j], N - 1))

\* a standardization that spreads an all-zero row evenly over the other units
RowStandardize_fillIslands(A) ==
    Mat(LAMBDA i, j : IF RowSum(A, i) = 0
                        THEN (IF i = j THEN Zero ELSE Rat(1, N - 1))
                        ELSE Rat(A[i][j], RowSum(A, i)))

\* a transform that leaves the weights as they are
RowStandardize_noop(A) == Mat(LAMBDA i, j : <<A[i][j], 1>>)

\* wq.transform = 'r': every row divided by its sum, an all-zero row left as is
RowStandardize(A) ==
    Mat(LAMBDA i, j : IF RowSum(A, i) = 0 THEN Zero ELSE Rat(A[i][j], RowSum(A, i)))

Weights(A, t) == IF t = "r" THEN RowStandardize(A) ELSE Raw(A)

(***************************************************************************)
(* Nonlinear SLX weights.  Values that involve exp or a square root are     *)
(* fixed-point numbers: integers in units of 1/FixedScale.                  *)
(***************************************************************************)
FixedScale == 1000000   \* resolution of the fixed-point numbers
MaxCoord == 7           \* largest coordinate of a point
K_nn == 3               \* number of nearest neighbours of make_wnslx

\* largest r with r * r <= n, searched between lo and hi
RECURSIVE ISqrtIn(_, _, _)
ISqrtIn(n, lo, hi) ==
    IF lo >= hi THEN lo
    ELSE LET mid == (lo + hi + 1) \div 2
         IN  IF mid <= n \div mid THEN ISqrtIn(n, mid, hi)
             ELSE ISqrtIn(n, lo, mid - 1)

ISqrt(n) == ISqrtIn(n, 0, n)

\* the terms (a/b)^k / k!, k >= from, of the exponential series, with
\* alternating signs, until they vanish at the resolution
RECURSIVE ExpSeries(_, _, _, _, _)
ExpSeries(a, b, t, k, sign) ==
    IF t = 0 THEN 0
    ELSE sign * t + ExpSeries(a, b, (t * a) \div (b * (k + 1)), k + 1, -sign)

\* product of two fixed-point numbers in [0, 1], formed from their upper and
\* lower halves
FMul(u, v) ==
    LET R == ISqrt(FixedScale)
        uh == u \div R
        ul == u % R
        vh == v \div R
        vl == v % R
    IN  uh * vh + (uh * vl + ul * vh) \div R + (ul * vl) \div FixedScale

\* np.exp(-x) for a rational x >= 0: the series for x <= 1, and
\* exp(-x) = exp(-x/2)^2 above
RECURSIVE ExpNeg(_)
ExpNeg(x) ==
    IF x[1] > x[2]
    THEN LET h == ExpNeg(Rat(x[1], 2 * x[2])) IN FMul(h, h)
    ELSE ExpSeries(x[1], x[2], FixedScale, 0, 1)

\* the terms (a/b)^k / k!, k >= from, of the exponential series of a
\* positive argument
RECURSIVE ExpSeriesPos(_, _, _, _)
ExpSeriesPos(a, b, t, k) ==
    IF t = 0 THEN 0
    ELSE t + ExpSeriesPos(a, b, (t * a) \div (b * (k + 1)), k + 1)

\* np.exp(x) for a rational x <= 1
np_exp(x) ==
    IF x[1] <= 0 THEN Rat(ExpNeg(<<-x[1], x[2]>>), FixedScale)
    ELSE Rat(ExpSeriesPos(x[1], x[2], FixedScale, 0), FixedScale)

\* v * z^e for a rational z in [0, 1] and a natural e
RECURSIVE FPowInt(_, _, _)
FPowInt(z, v, e) == IF e = 0 THEN v ELSE FPowInt(z, (v * z[1]) \div z[2], e - 1)

\* smallest r between lo and hi whose square is at least t, in fixed point
RECURSIVE FSqrtIn(_, _, _)
FSqrtIn(t, lo, hi) ==
    IF lo >= hi THEN lo
    ELSE LET mid == (lo + hi) \div 2
         IN  IF FMul(mid, mid) >= t THEN FSqrtIn(t, lo, mid)
             ELSE FSqrtIn(t, mid + 1, hi)

\* sqrt(z) for a rational z in [0, 1]
FSqrt(z) == FSqrtIn((z[1] * FixedScale) \div z[2], 0, FixedScale)

\* z ** alpha for a rational z in [0, 1] and alpha = m or alpha = m/2, m >= 0
PowFixed(z, alpha) ==
    LET whole == FPowInt(z, FixedScale, alpha[1] \div alpha[2])
    IN  IF alpha[2] = 1 THEN whole ELSE FMul(whole, FSqrt(z))

\* a power that is 0 at base 0 for every exponent, 0 ** 0 included
np_power_zero_base(z, alpha) ==
    IF z = Zero THEN Zero ELSE Rat(PowFixed(z, alpha), FixedScale)

\* the power taken of the complement of its base
np_power_of_complement(z, alpha) ==
    Rat(PowFixed(RSub(One, z), alpha), FixedScale)

\* z ** alpha as a number
np_power(z, alpha) == Rat(PowFixed(z, alpha), FixedScale)

(***************************************************************************)
(* make_wnslx(coords, params=(k, inf, kind)): for every point its k nearest *)
(* neighbours, the bandwidth being the distance to the farthest of them.    *)
(* kind "exponential" stores z = d/bw, kind "power" stores z = 1 - d/bw.    *)
(***************************************************************************)
Dist(xs, i, j) == Abs(xs[i] - xs[j])

Knn == IF K_nn < N - 1 THEN K_nn ELSE N - 1

\* number of points other than i strictly nearer to i than j, or as near with
\* a smaller index
Rank(xs, i, j) ==
    Cardinality({m \in Units \ {i, j} :
        \/ Dist(xs, i, m) < Dist(xs, i, j)
        \/ Dist(xs, i, m) = Dist(xs, i, j) /\ m < j})

IsNeighbour(xs, i, j) == i # j /\ Rank(xs, i, j) < Knn

Bandwidth(xs, i) ==
    CHOOSE d \in 0..MaxCoord :
        /\ \E j \in Units : IsNeighbour(xs, i, j) /\ Dist(xs, i, j) = d
        /\ \A j \in Units : IsNeighbour(xs, i, j) => Dist(xs, i, j) <= d

make_wnslx(xs, kind) ==
    Mat(LAMBDA i, j :
        IF ~IsNeighbour(xs, i, j) THEN Zero
        ELSE IF kind = "exponential" THEN Rat(Dist(xs, i, j), Bandwidth(xs, i))
        ELSE RSub(One, Rat(Dist(xs, i, j), Bandwidth(xs, i))))

\* points on a line at distinct integer coordinates, such that no point has
\* two other points at the distance of its bandwidth, one inside and one
\* outside its neighbour list
CoordSets ==
    { xs \in [Units -> 0..MaxCoord] :
        /\ \A i \in Units : i < N => xs[i] < xs[i + 1]
        /\ \A i, j, m \in Units :
              (IsNeighbour(xs, i, j) /\ m # i /\ ~IsNeighbour(xs, i, m))
                  => Dist(xs, i, j) < Dist(xs, i, m) }

\* model = 'exponential': W(alpha)[i][j] = exp(-alpha * z[i][j]) on the stored
\* entries
ExponentialMatrix(Z, alpha) ==
    [num |-> Mat(LAMBDA i, j : IF Z[i][j] = Zero THEN 0
                                ELSE ExpNeg(RMul(alpha, Z[i][j]))),
     den |-> FixedScale]

\* model = 'power': W(alpha)[i][j] = z[i][j] ** alpha on the stored entries
PowerMatrix(Z, alpha) ==
    [num |-> Mat(LAMBDA i, j : IF Z[i][j] = Zero THEN 0
                                ELSE PowFixed(Z[i][j], alpha)),
     den |-> FixedScale]

(***************************************************************************)
(* The multiplier calculator i_multipliers(w, coef, model, id).            *)
(* A multiplier matrix is kept as integer numerators over one common       *)
(* denominator: [num |-> matrix, den |-> integer].                         *)
(***************************************************************************)
LcmRow(W, i) == LcmDen(W[i], N)

RECURSIVE LcmAll(_, _)
LcmAll(W, k) == IF k = 0 THEN 1 ELSE Lcm(LcmAll(W, k - 1), LcmRow(W, k))

\* model = 'slx': the multiplier matrix is W itself
SlxMatrix(W) ==
    LET L == LcmAll(W, N)
    IN  [num |-> Mat(LAMBDA i, j : W[i][j][1] * (L \div W[i][j][2])),
         den |-> L]

\* the matrix with the sign of coef * W reversed
IminusRhoW_plus(W, coef) ==
    Mat(LAMBDA i, j : RAdd(IF i = j THEN One ELSE Zero, RMul(coef, W[i][j])))

\* I - coef * W
IminusRhoW(W, coef) ==
    Mat(LAMBDA i, j : RSub(IF i = j THEN One ELSE Zero, RMul(coef, W[i][j])))

\* model = 'lag': (I - coef*W)^-1 by cofactors of the row-scaled integer matrix
\* B = D (I - coef*W), D = diag(d); then inverse = adj(B) D / det(B)
LagMatrix(W, coef) ==
    LET A == IminusRhoW(W, coef)
        d == Vec(LAMBDA i : LcmRow(A, i))
        B == Mat(LAMBDA i, j : A[i][j][1] * (d[i] \div A[i][j][2]))
    IN  [num |-> Mat(LAMBDA i, j : Cof(B, N, j, i) * d[j]),
         den |-> Det(B, Idx(N), Idx(N))]

\* a row sum that counts the diagonal element too
OffDiagRow_withDiagonal(M, i) == ISum(M.num[i], N)

OffDiagRow(M, i) == ISum(Vec(LAMBDA j : IF j = i THEN 0 ELSE M.num[i][j]), N)
\* a column sum that counts the diagonal element too
OffDiagCol_withDiagonal(M, i) == ISum(Vec(LAMBDA r : M.num[r][i]), N)

OffDiagCol(M, i) == ISum(Vec(LAMBDA r : IF r = i THEN 0 ELSE M.num[r][i]), N)

NoTable == [status |-> "undefined"]
Failure(kind) == [status |-> kind]

\* a table whose rows are sorted by identifier
Table_sortedById(M, id) ==
    LET unitAt(p) == CHOOSE u \in Units :
                         Cardinality({v \in Units : id[v] < id[u]}) = p - 1
    IN  [status  |-> "ok",
         id      |-> Vec(LAMBDA p : id[unitAt(p)]),
         Direct  |-> Vec(LAMBDA p : Rat(M.num[unitAt(p)][unitAt(p)], M.den)),
         EofNbrs |-> Vec(LAMBDA p : Rat(OffDiagRow(M, unitAt(p)), M.den)),
         EonNbrs |-> Vec(LAMBDA p : Rat(OffDiagCol(M, unitAt(p)), M.den))]

\* the per-unit table [id, Direct, EofNbrs, EonNbrs] of a multiplier matrix
Table(M, id) ==
    [status  |-> "ok",
     id      |-> id,
     Direct  |-> Vec(LAMBDA i : Rat(M.num[i][i], M.den)),
     EofNbrs |-> Vec(LAMBDA i : Rat(OffDiagRow(M, i), M.den)),
     EonNbrs |-> Vec(LAMBDA i : Rat(OffDiagCol(M, i), M.den))]

\* model = 'kernel': W with the diagonal forced to 1
KernelMatrix(W) ==
    LET L == LcmAll(W, N)
    IN  [num |-> Mat(LAMBDA i, j : IF i = j THEN L
                                    ELSE W[i][j][1] * (L \div W[i][j][2])),
         den |-> L]

\* W has as many columns in every row as it has rows
Square(W) == \A i \in 1..Len(W) : Len(W[i]) = Len(W)

\* a check of W alone, which lets any id vector pass
DimensionsAgree_ignoresId(W, id) == Square(W)

\* W is square and id has one entry per row of W
DimensionsAgree(W, id) == Square(W) /\ Len(id) = Len(W)

ModelNames == {"slx", "kernel", "lag", "exponential", "power"}

i_multipliers(W, coef, model, id) ==
    IF ~DimensionsAgree(W, id) THEN Failure("DimensionMismatch")
    ELSE IF model \notin ModelNames THEN Failure("UnsupportedModel")
    ELSE CASE model = "slx" -> Table(SlxMatrix(W), id)
           [] model = "kernel" -> Table(KernelMatrix(W), id)
           [] model = "lag" ->
                 LET M == LagMatrix(W, coef)
                 IN  IF M.den = 0 THEN Failure("MatrixSingularity")
                     ELSE Table(M, id)
           [] model = "exponential" -> Table(ExponentialMatrix(W, coef), id)
           [] model = "power" -> Table(PowerMatrix(W, coef), id)

\* mean of a column of the table (describe())
Mean(v) == LET s == RSum(v, N) IN Rat(s[1], s[2] * N)

\* mean(u) + mean(v), summed over one common denominator
MeanSum(u, v) ==
    LET s == RSum(u \o v, 2 * N) IN Rat(s[1], s[2] * N)

(***************************************************************************)
(* The Spatial Multipliers notebook, run from the top: the cells that      *)
(* build the weights and call i_multipliers.                               *)
(***************************************************************************)
VARIABLES
    pc,          \* the last cell of the multipliers notebook that ran
    wq,          \* the raw weights held by the weights object
    transform,   \* its transformation: "O" (original) or "r" (row-standardized)
    queen,       \* table of i_multipliers(wq, model='slx')
    lag5,        \* table of i_multipliers(wq, coef, model='lag')
    lag3,        \* table of i_multipliers(wq, coef=0.3, model='lag')
    rho,         \* the coefficient passed to the call that made lag5
    raised       \* the error raised by the last call, "none" if it returned

multVars == <<pc, wq, transform, queen, lag5, lag3, rho, raised>>

\* fipsid = dfs[["FIPSNO"]]: one opaque identifier per unit, in row order
fipsid == Vec(LAMBDA i : 28000 + 2 * i - 1)

\* the autoregressive coefficients of the lag calls
Coefs == {Zero, Rat(3, 10), Rat(1, 2), Rat(7, 10)}

\* a second lag call made with 0.7 instead of 0.3
coef_lag3_is07 == Rat(7, 10)

\* a second lag call that repeats the coefficient 0.5 of the first
coef_lag3_is05 == Rat(1, 2)

\* coef of the call lag3 = i_multipliers(wq, coef=0.3, model='lag', id=fipsid)
coef_lag3 == Rat(3, 10)

InitMult ==
    /\ pc = "data"
    /\ wq = <<>>
    /\ transform = "O"
    /\ queen = NoTable
    /\ lag5 = NoTable
    /\ lag3 = NoTable
    /\ rho = Zero
    /\ raised = "none"

\* what a cell `name = i_multipliers(...)` leaves in name: the table, or the
\* old value when the call raised
Assigned(old, result) == IF result.status = "ok" THEN result ELSE old
Raised(result) == IF result.status = "ok" THEN "none" ELSE result.status

\* wq = weights.Queen.from_dataframe(dfs, ids=idvar); wq.transform = t;
\* queen = i_multipliers(wq, model='slx', id=fipsid)
CellQueen(A, t) ==
    /\ pc = "data"
    /\ wq' = A
    /\ transform' = t
    /\ LET r == i_multipliers(Weights(A, t), Zero, "slx", fipsid)
       IN  queen' = Assigned(queen, r) /\ raised' = Raised(r)
    /\ pc' = "queen"
    /\ UNCHANGED <<lag5, lag3, rho>>

\* lag5 = i_multipliers(wq, coef=c, model='lag', id=fipsid)
CellLag5(c) ==
    /\ pc = "queen"
    /\ LET r == i_multipliers(Weights(wq, transform), c, "lag", fipsid)
       IN  lag5' = Assigned(lag5, r) /\ raised' = Raised(r)
    /\ rho' = c
    /\ pc' = "lag5"
    /\ UNCHANGED <<wq, transform, queen, lag3>>

\* lag3 = i_multipliers(wq, coef=0.3, model='lag', id=fipsid)
CellLag3 ==
    /\ pc = "lag5"
    /\ LET r == i_multipliers(Weights(wq, transform), coef_lag3, "lag", fipsid)
       IN  lag3' = Assigned(lag3, r) /\ raised' = Raised(r)
    /\ pc' = "lag3"
    /\ UNCHANGED <<wq, transform, queen, lag5, rho>>

(***************************************************************************)
(* The nonlinear SLX cells of the same notebook: distance weights from the  *)
(* centroids, and their multipliers for two values of the parameter.        *)
(***************************************************************************)
VARIABLES
    pcn,         \* the last nonlinear SLX cell that ran
    coords,      \* coordinates of the points
    wexp,        \* make_wnslx(coords, params=(k, np.inf, "exponential"))
    exp2,        \* table of i_multipliers(wexp, coef=2.0, model='exponential')
    exp15,       \* table of i_multipliers(wexp, coef=1.5, model='exponential')
    winv,        \* make_wnslx(coords, params=(k, np.inf, "power"))
    pow2,        \* table of i_multipliers(winv, coef=2.0, model='power')
    pow15        \* table of i_multipliers(winv, coef=1.5, model='power')

nslxVars == <<pcn, coords, wexp, exp2, exp15, winv, pow2, pow15>>

\* a second exponential call made with 2.5 instead of 1.5
coef_exp15_is25 == Rat(5, 2)

coef_exp2 == Rat(2, 1)
coef_exp15 == Rat(3, 2)
coef_pow2 == Rat(2, 1)
coef_pow15 == Rat(3, 2)

InitNslx ==
    /\ pcn = "data"
    /\ coords = <<>>
    /\ wexp = <<>>
    /\ exp2 = NoTable
    /\ exp15 = NoTable
    /\ winv = <<>>
    /\ pow2 = NoTable
    /\ pow15 = NoTable

\* coords = np.array((gcent.x, gcent.y)).T; wexp = make_wnslx(coords, ...)
CellWexp(xs) ==
    /\ pcn = "data"
    /\ coords' = xs
    /\ wexp' = make_wnslx(xs, "exponential")
    /\ pcn' = "wexp"
    /\ UNCHANGED <<exp2, exp15, winv, pow2, pow15>>

\* exp2 = i_multipliers(wexp, coef=2.0, model='exponential', id=fipsid)
CellExp2 ==
    /\ pcn = "wexp"
    /\ exp2' = Assigned(exp2, i_multipliers(wexp, coef_exp2, "exponential", fipsid))
    /\ pcn' = "exp2"
    /\ UNCHANGED <<coords, wexp, exp15, winv, pow2, pow15>>

\* exp15 = i_multipliers(wexp, coef=1.5, model='exponential', id=fipsid)
CellExp15 ==
    /\ pcn = "exp2"
    /\ exp15' = Assigned(exp15, i_multipliers(wexp, coef_exp15, "exponential", fipsid))
    /\ pcn' = "exp15"
    /\ UNCHANGED <<coords, wexp, exp2, winv, pow2, pow15>>

\* winv = make_wnslx(coords, params=(k, np.inf, "power"), ...)
CellWinv ==
    /\ pcn = "exp15"
    /\ winv' = make_wnslx(coords, "power")
    /\ pcn' = "winv"
    /\ UNCHANGED <<coords, wexp, exp2, exp15, pow2, pow15>>

\* pow2 = i_multipliers(winv, coef=2.0, model='power', id=fipsid)
CellPow2 ==
    /\ pcn = "winv"
    /\ pow2' = Assigned(pow2, i_multipliers(winv, coef_pow2, "power", fipsid))
    /\ pcn' = "pow2"
    /\ UNCHANGED <<coords, wexp, exp2, exp15, winv, pow15>>

\* pow15 = i_multipliers(winv, coef=1.5, model='power', id=fipsid)
CellPow15 ==
    /\ pcn = "pow2"
    /\ pow15' = Assigned(pow15, i_multipliers(winv, coef_pow15, "power", fipsid))
    /\ pcn' = "pow15"
    /\ UNCHANGED <<coords, wexp, exp2, exp15, winv, pow2>>

(***************************************************************************)
(* The kernel and distance-function cells of the data input/output         *)
(* notebook.  An array is the tuple of its values on the grid; a name that  *)
(* no cell has bound yet holds the empty tuple.  The data frames df1..df6   *)
(* hold the columns of p1..p6 under labels and are drawn; p1..p6 stand for  *)
(* them.                                                                    *)
(***************************************************************************)
GridNum == 21     \* num of np.linspace

VARIABLES
    pck,         \* "idle", or the loop that is running
    z,           \* the grid of distances
    tri,         \* triangular kernel
    p1,          \* columns (z, tri)
    z2,          \* z squared
    epa,         \* quadratic/Epanechnikov kernel
    p2,          \* columns (z, epa)
    quar,        \* quartic kernel
    p3,          \* columns (z, quar)
    zz,          \* -z2/2 in the Gaussian cell, 1 - z in the power cell
    gs,          \* Gaussian kernel
    p4,          \* columns (z, gs)
    pall,        \* columns of the comparison graph
    a,           \* list of parameter values of a loop
    pos,         \* position of the running loop in a
    loop_i,      \* the loop variable i
    za,          \* -i*z in the exponential loop, zz**i in the power loop
    expon,       \* exp(za)
    p5,          \* columns of the negative exponential graph
    p6,          \* columns of the inverse distance power graph
    kraised      \* exception raised by the last cell, or "none"

kernelVars == <<pck, z, tri, p1, z2, epa, p2, quar, p3, zz, gs, p4, pall,
                a, pos, loop_i, za, expon, p5, p6, kraised>>

Unbound == <<>>
Bound(x) == x # Unbound

Arr(F(_)) == SeqOf(F, GridNum)

\* np.linspace(0.0, 1.0, num=21)
linspace == Arr(LAMBDA k : Rat(k - 1, GridNum - 1))

\* a = [0.0, 0.5, 1.0, 2.0, 6.0]
a_list == <<Zero, Rat(1, 2), One, Rat(2, 1), Rat(6, 1)>>

InitKernel ==
    /\ pck = "idle"
    /\ z = Unbound /\ tri = Unbound /\ p1 = Unbound
    /\ z2 = Unbound /\ epa = Unbound /\ p2 = Unbound
    /\ quar = Unbound /\ p3 = Unbound
    /\ zz = Unbound /\ gs = Unbound /\ p4 = Unbound
    /\ pall = Unbound
    /\ a = Unbound /\ pos = 0 /\ loop_i = Unbound
    /\ za = Unbound /\ expon = Unbound /\ p5 = Unbound /\ p6 = Unbound
    /\ kraised = "none"

\* a cell that reads a name no cell has bound stops with NameError and binds
\* nothing from that statement on
NameError == kraised' = "NameError"
Done == kraised' = "none"

\* z = np.linspace(0.0,1.0,num=21); z = z.reshape(-1,1)
CellGrid ==
    /\ pck = "idle"
    /\ z' = linspace
    /\ Done
    /\ UNCHANGED <<pck, tri, p1, z2, epa, p2, quar, p3, zz, gs, p4, pall,
                   a, pos, loop_i, za, expon, p5, p6>>

\* tri = 1.0 - z; tri = tri.reshape(-1,1)
CellTri ==
    /\ pck = "idle"
    /\ IF Bound(z)
       THEN tri' = Arr(LAMBDA k : RSub(One, z[k])) /\ Done
       ELSE NameError /\ UNCHANGED tri
    /\ UNCHANGED <<pck, z, p1, z2, epa, p2, quar, p3, zz, gs, p4, pall,
                   a, pos, loop_i, za, expon, p5, p6>>

\* p1 = np.hstack((z,tri)); df1 = pd.DataFrame(p1, ...); df1.plot(...)
CellP1 ==
    /\ pck = "idle"
    /\ IF Bound(z) /\ Bound(tri)
       THEN p1' = <<z, tri>> /\ Done
       ELSE NameError /\ UNCHANGED p1
    /\ UNCHANGED <<pck, z, tri, z2, epa, p2, quar, p3, zz, gs, p4, pall,
                   a, pos, loop_i, za, expon, p5, p6>>

\* the quadratic kernel scaled by 3/4
epa_scaled(sq) == Arr(LAMBDA k : RMul(Rat(3, 4), RSub(One, sq[k])))

\* the quadratic kernel without the subtraction from one
epa_rising(sq) == Arr(LAMBDA k : sq[k])

\* 1.0 - z2
epa_of(sq) == Arr(LAMBDA k : RSub(One, sq[k]))

\* z2 = z**2; z2 = z2.reshape(-1,1); epa = 1.0 - z2; p2 = np.hstack((z,epa));
\* df2 = pd.DataFrame(p2, ...); df2.plot(...)
CellEpa ==
    /\ pck = "idle"
    /\ IF Bound(z)
       THEN /\ z2' = Arr(LAMBDA k : RMul(z[k], z[k]))
            /\ epa' = epa_of(z2')
            /\ p2' = <<z, epa'>>
            /\ Done
       ELSE NameError /\ UNCHANGED <<z2, epa, p2>>
    /\ UNCHANGED <<pck, z, tri, p1, quar, p3, zz, gs, p4, pall,
                   a, pos, loop_i, za, expon, p5, p6>>

\* the quartic kernel taken to the first power only
quar_unsquared(sq) == Arr(LAMBDA k : RSub(One, sq[k]))

\* the quartic kernel scaled by 15/16
quar_scaled(sq) ==
    Arr(LAMBDA k : LET u == RSub(One, sq[k]) IN RMul(Rat(15, 16), RMul(u, u)))

\* (1.0 - z2) ** 2
quar_of(sq) ==
    Arr(LAMBDA k : LET u == RSub(One, sq[k]) IN RMul(u, u))

\* quar = (1.0 - z2) ** 2; p3 = np.hstack((z,quar)); df3 = ...; df3.plot(...)
CellQuar ==
    /\ pck = "idle"
    /\ IF Bound(z2)
       THEN /\ quar' = quar_of(z2)
            /\ p3' = <<z, quar'>>
            /\ Done
       ELSE NameError /\ UNCHANGED <<quar, p3>>
    /\ UNCHANGED <<pck, z, tri, p1, z2, epa, p2, zz, gs, p4, pall,
                   a, pos, loop_i, za, expon, p5, p6>>

\* zz = -z2 / 2.0; gs = np.exp(zz); p4 = np.hstack((z,gs)); df4 = ...
CellGauss ==
    /\ pck = "idle"
    /\ IF Bound(z2)
       THEN /\ zz' = Arr(LAMBDA k : RDiv(RSub(Zero, z2[k]), Rat(2, 1)))
            /\ gs' = Arr(LAMBDA k : np_exp(zz'[k]))
            /\ p4' = <<z, gs'>>
            /\ Done
       ELSE NameError /\ UNCHANGED <<zz, gs, p4>>
    /\ UNCHANGED <<pck, z, tri, p1, z2, epa, p2, quar, p3, pall,
                   a, pos, loop_i, za, expon, p5, p6>>

\* pall = pd.concat((df1,df2["quadratic"],df3["quartic"],df4["Gaussian"]),
\* axis=1); pall.plot(...)
CellCompare ==
    /\ pck = "idle"
    /\ IF Bound(p1) /\ Bound(p2) /\ Bound(p3) /\ Bound(p4)
       THEN pall' = <<p1[1], p1[2], p2[2], p3[2], p4[2]>> /\ Done
       ELSE NameError /\ UNCHANGED pall
    /\ UNCHANGED <<pck, z, tri, p1, z2, epa, p2, quar, p3, zz, gs, p4,
                   a, pos, loop_i, za, expon, p5, p6>>

\* a = [0.0, 0.5, 1.0, 2.0, 6.0]; p5 = z; for i in a:
CellExpLoop ==
    /\ pck = "idle"
    /\ a' = a_list
    /\ IF Bound(z)
       THEN p5' = <<z>> /\ pos' = 1 /\ pck' = "exp" /\ Done
       ELSE NameError /\ UNCHANGED <<p5, pos, pck>>
    /\ UNCHANGED <<z, tri, p1, z2, epa, p2, quar, p3, zz, gs, p4, pall,
                   loop_i, za, expon, p6>>

\* za = - i * z; expon = np.exp(za); p5 = np.hstack((p5,expon))
ExpLoopBody ==
    /\ pck = "exp"
    /\ pos <= Len(a)
    /\ loop_i' = a[pos]
    /\ za' = Arr(LAMBDA k : RMul(RSub(Zero, loop_i'), z[k]))
    /\ expon' = Arr(LAMBDA k : np_exp(za'[k]))
    /\ p5' = Append(p5, expon')
    /\ pos' = pos + 1
    /\ UNCHANGED <<pck, z, tri, p1, z2, epa, p2, quar, p3, zz, gs, p4, pall,
                   a, p6, kraised>>

\* cols = ...; df5 = pd.DataFrame(p5,columns=cols); df5.plot(...)
ExpLoopEnd ==
    /\ pck = "exp"
    /\ pos > Len(a)
    /\ pck' = "idle"
    /\ UNCHANGED <<z, tri, p1, z2, epa, p2, quar, p3, zz, gs, p4, pall,
                   a, pos, loop_i, za, expon, p5, p6, kraised>>

\* a = [0.0, 0.5, 1.0, 2.0, 6.0]; p6 = z; zz = 1.0 - z; for i in a:
CellPowLoop ==
    /\ pck = "idle"
    /\ a' = a_list
    /\ IF Bound(z)
       THEN /\ p6' = <<z>>
            /\ zz' = Arr(LAMBDA k : RSub(One, z[k]))
            /\ pos' = 1 /\ pck' = "pow" /\ Done
       ELSE NameError /\ UNCHANGED <<p6, zz, pos, pck>>
    /\ UNCHANGED <<z, tri, p1, z2, epa, p2, quar, p3, gs, p4, pall,
                   loop_i, za, expon, p5>>

\* za = zz**i; p6 = np.hstack((p6,za))
PowLoopBody ==
    /\ pck = "pow"
    /\ pos <= Len(a)
    /\ loop_i' = a[pos]
    /\ za' = Arr(LAMBDA k : np_power(zz[k], loop_i'))
    /\ p6' = Append(p6, za')
    /\ pos' = pos + 1
    /\ UNCHANGED <<pck, z, tri, p1, z2, epa, p2, quar, p3, zz, gs, p4, pall,
                   a, expon, p5, kraised>>

\* cols = ...; df6 = pd.DataFrame(p6,columns=cols); df6.plot(...)
PowLoopEnd ==
    /\ pck = "pow"
    /\ pos > Len(a)
    /\ pck' = "idle"
    /\ UNCHANGED <<z, tri, p1, z2, epa, p2, quar, p3, zz, gs, p4, pall,
                   a, pos, loop_i, za, expon, p5, p6, kraised>>

(***************************************************************************)
(* The negative exponential distance function as the body of the loop      *)
(* computes it, for one parameter value and one distance: the statements   *)
(* za = - i * z and expon = np.exp(za), applied to a parameter and a        *)
(* distance of the caller's choice.                                        *)
(***************************************************************************)
VARIABLES
    f_pc,        \* "idle", "called" before the statements run, "returned" after
    f_i,         \* the parameter alpha
    f_z,         \* the distance fraction
    f_za,        \* - i * z
    f_expon,     \* np.exp(za)
    f_raised     \* exception raised by the statements, or "none"

transformVars == <<f_pc, f_i, f_z, f_za, f_expon, f_raised>>

\* parameter values: those of the loop, and two below zero
AlphaInputs == {a_list[c] : c \in 1..Len(a_list)} \cup {Rat(-1, 1), Rat(-1, 2)}

InitTransform ==
    /\ f_pc = "called"
    /\ f_i \in AlphaInputs
    /\ f_z \in {linspace[k] : k \in 1..GridNum}
    /\ f_za = Unbound
    /\ f_expon = Unbound
    /\ f_raised = "none"

\* the function is not called
NoTransform ==
    /\ f_pc = "idle"
    /\ f_i = Unbound /\ f_z = Unbound
    /\ f_za = Unbound /\ f_expon = Unbound
    /\ f_raised = "none"

\* za = - i * z; expon = np.exp(za)
ExponentialTransform ==
    /\ f_pc = "called"
    /\ f_za' = RMul(RSub(Zero, f_i), f_z)
    /\ f_expon' = np_exp(f_za')
    /\ f_pc' = "returned"
    /\ UNCHANGED <<f_i, f_z, f_raised>>

(***************************************************************************)
(* The multiplier calculator called on its own, with arguments of the      *)
(* caller's choice, valid or not, and called again on the same weights     *)
(* with another identifier vector.                                         *)
(***************************************************************************)
VARIABLES
    c_pc,        \* "idle", "called", "returned", "relabelled"
    c_w,         \* argument w
    c_id,        \* argument id
    c_model,     \* argument model
    c_coef,      \* argument coef
    c_result,    \* the table returned by the call, if any
    c_raised,    \* exception raised by the call, or "none"
    c_id2,       \* argument id of the second call
    c_result2    \* the table returned by the second call, if any

calcVars == <<c_pc, c_w, c_id, c_model, c_coef, c_result, c_raised,
              c_id2, c_result2>>

\* weights matrices: contiguity weights along a ring with one chord, as built
\* or row-standardized, and matrices one row short of square
CalcGraphs ==
    {A \in Contiguity :
        \A i, j \in Units :
            (A[i][j] = 1 /\ i < j) =>
                (j = i + 1 \/ (i = 1 /\ j = N) \/ (i = 1 /\ j = 3))}
SquareWeights == {Weights(A, t) : A \in CalcGraphs, t \in {"O", "r"}}
ShortWeights == {SubSeq(Raw(A), 1, N - 1) : A \in CalcGraphs}
CalcWeights == SquareWeights \cup ShortWeights

\* centroids of the kernel weights: the first two units at most 2 apart
KernelCoords == {xs \in CoordSets : xs[1] = 0 /\ xs[2] <= 2}

\* wkern = weights.Kernel.from_dataframe(dfs, k=..., fixed=False,
\* diagonal=True): triangular weights 1 - d/bw on the nearest neighbours of a
\* unit, bw its own bandwidth, and 1 on the diagonal
Kernel_from_dataframe(xs) ==
    LET T == make_wnslx(xs, "power")
    IN  Mat(LAMBDA i, j : IF i = j THEN One ELSE T[i][j])

KernelWeights == {Kernel_from_dataframe(xs) : xs \in KernelCoords}

\* identifier vectors: the FIPS codes, one code short, one code too many
CalcIds == {fipsid, SubSeq(fipsid, 1, N - 1), Append(fipsid, 28999)}

\* other labels for the same units
other_id == Vec(LAMBDA i : 100 * (N + 1 - i))

\* model and coef of a call
CalcCalls ==
    {<<"slx", Zero>>, <<"kernel", Zero>>, <<"sar", Rat(1, 2)>>,
     <<"exponential", Rat(2, 1)>>, <<"power", Rat(3, 2)>>}
    \cup {<<"lag", c>> : c \in {Rat(1, 2), One, Rat(-1, 1), Rat(2, 1)}}

\* w, model and coef of a call; the kernel weights go with model = 'kernel'
CalcArguments ==
    {<<W, m[1], m[2]>> : W \in CalcWeights, m \in CalcCalls}
    \cup {<<W, "kernel", Zero>> : W \in KernelWeights}

NoCall ==
    /\ c_pc = "idle"
    /\ c_w = <<>> /\ c_id = <<>> /\ c_model = "" /\ c_coef = Zero
    /\ c_result = NoTable /\ c_raised = "none"
    /\ c_id2 = <<>> /\ c_result2 = NoTable

InitCalc ==
    /\ c_pc = "called"
    /\ \E g \in CalcArguments : c_w = g[1] /\ c_model = g[2] /\ c_coef = g[3]
    /\ c_id \in CalcIds
    /\ c_result = NoTable /\ c_raised = "none"
    /\ c_id2 = <<>> /\ c_result2 = NoTable

\* a calculator that forces the diagonal of the matrix it was given
AfterCall_forcesDiagonal(W, model) ==
    IF model = "kernel" /\ Square(W)
    THEN [i \in 1..Len(W) |-> [j \in 1..Len(W) |->
             IF i = j THEN One ELSE W[i][j]]]
    ELSE W

\* the weights object of the caller after a call
AfterCall(W, model) == W

\* result = i_multipliers(w, coef=coef, model=model, id=id)
Call ==
    /\ c_pc = "called"
    /\ LET r == i_multipliers(c_w, c_coef, c_model, c_id)
       IN  c_result' = Assigned(c_result, r) /\ c_raised' = Raised(r)
    /\ c_w' = AfterCall(c_w, c_model)
    /\ c_pc' = "returned"
    /\ UNCHANGED <<c_id, c_model, c_coef, c_id2, c_result2>>

\* result2 = i_multipliers(w, coef=coef, model=model, id=id2)
CallRelabelled ==
    /\ c_pc = "returned"
    /\ c_raised = "none"
    /\ c_id2' = other_id
    /\ LET r == i_multipliers(c_w, c_coef, c_model, c_id2')
       IN  c_result2' = Assigned(c_result2, r) /\ c_raised' = Raised(r)
    /\ c_w' = AfterCall(c_w, c_model)
    /\ c_pc' = "relabelled"
    /\ UNCHANGED <<c_id, c_model, c_coef, c_result>>

(***************************************************************************)
(* The helper nbreffect(dfs, dfm, oid, mult, model): the extreme values of  *)
(* one multiplier and its map.  Positions are counted from 1.  What is      *)
(* printed and what multmap draws are kept as lists.                        *)
(***************************************************************************)
VARIABLES
    n_pc,        \* "idle", "called", "selected", "max", "min", "returned",
                 \* "raised"
    n_dfm,       \* argument dfm: a table of multipliers
    n_oid,       \* argument oid
    n_mult,      \* argument mult
    n_model,     \* argument model
    n_coli,      \* position of the column
    n_imax,      \* position of the maximum
    n_imin,      \* position of the minimum
    n_printed,   \* lines printed
    n_maps,      \* maps drawn
    n_raised     \* exception raised, or "none"

nbrVars == <<n_pc, n_dfm, n_oid, n_mult, n_model, n_coli, n_imax, n_imin,
             n_printed, n_maps, n_raised>>

\* columns of the table after its index
TableColumns == {"id", "Direct", "EofNbrs", "EonNbrs"}

\* values of mult: the three multipliers, the id column and a name the table
\* does not have
MultInputs == {"Direct", "EofNbrs", "EonNbrs", "id", "Total"}

NoNbr ==
    /\ n_pc = "idle"
    /\ n_dfm = NoTable /\ n_oid = <<>> /\ n_mult = "" /\ n_model = ""
    /\ n_coli = 0 /\ n_imax = 0 /\ n_imin = 0
    /\ n_printed = <<>> /\ n_maps = <<>> /\ n_raised = "none"

\* the tables nbreffect is called with: queen and lag5 for any weights, each
\* with the model it was computed for
NbrTables ==
    {g \in {<<i_multipliers(W, Zero, "slx", fipsid), "slx">> :
                W \in SquareWeights}
            \cup {<<i_multipliers(W, Rat(1, 2), "lag", fipsid), "lag">> :
                W \in SquareWeights} :
        g[1].status = "ok"}

InitNbr ==
    /\ n_pc = "called"
    /\ \E g \in NbrTables : n_dfm = g[1] /\ n_model = g[2]
    /\ n_oid = fipsid
    /\ n_mult \in MultInputs
    /\ n_coli = 0 /\ n_imax = 0 /\ n_imin = 0
    /\ n_printed = <<>> /\ n_maps = <<>> /\ n_raised = "none"

\* a selection that falls back on the last column for any other name
Column_defaultsToLast(mult) ==
    CASE mult = "Direct" -> 1
      [] mult = "EofNbrs" -> 2
      [] OTHER -> 3

\* if mult == 'Direct': coli = 1 ... else: raise Exception("Invalid column");
\* 0 stands for the raise
Column(mult) ==
    CASE mult = "Direct" -> 1
      [] mult = "EofNbrs" -> 2
      [] mult = "EonNbrs" -> 3
      [] OTHER -> 0

\* the last position that holds the largest value
idxmax_last(v) ==
    CHOOSE i \in 1..Len(v) :
        /\ \A j \in 1..Len(v) : RLe(v[j], v[i])
        /\ \A j \in (i + 1)..Len(v) : RLt(v[j], v[i])

\* idxmax: the first position that holds the largest value
idxmax(v) ==
    CHOOSE i \in 1..Len(v) :
        /\ \A j \in 1..Len(v) : RLe(v[j], v[i])
        /\ \A j \in 1..(i - 1) : RLt(v[j], v[i])

\* idxmin: the first position that holds the smallest value
idxmin(v) ==
    CHOOSE i \in 1..Len(v) :
        /\ \A j \in 1..Len(v) : RLe(v[i], v[j])
        /\ \A j \in 1..(i - 1) : RLt(v[i], v[j])

\* the format 0.3f: thousandths, the nearest, the even one at a tie
Format3(x) ==
    LET q == (1000 * x[1]) \div x[2]
        r == (1000 * x[1]) % x[2]
    IN  IF 2 * r > x[2] \/ (2 * r = x[2] /\ q % 2 = 1) THEN q + 1 ELSE q

\* dfm[[name]]: the column of that name, as numbers
ValuesOf(dfm, name) ==
    IF name = "id" THEN [i \in 1..Len(dfm.id) |-> <<dfm.id[i], 1>>]
    ELSE dfm[name]

\* dfm.iloc[:, coli]: the column at that position, the id column being 0
ColumnAt(dfm, coli) ==
    CASE coli = 1 -> dfm.Direct
      [] coli = 2 -> dfm.EofNbrs
      [] coli = 3 -> dfm.EonNbrs

\* the if ... elif ... else that opens nbreffect
NbrSelect ==
    /\ n_pc = "called"
    /\ IF Column(n_mult) = 0
       THEN /\ n_raised' = "Invalid column"
            /\ n_pc' = "raised"
            /\ UNCHANGED n_coli
       ELSE /\ n_coli' = Column(n_mult)
            /\ n_pc' = "selected"
            /\ UNCHANGED n_raised
    /\ UNCHANGED <<n_dfm, n_oid, n_mult, n_model, n_imax, n_imin,
                   n_printed, n_maps>>

\* imax = int(dfm[[mult]].idxmax()); print(f"The maximum is ...")
NbrMax ==
    /\ n_pc = "selected"
    /\ IF n_mult \notin TableColumns
       THEN /\ n_raised' = "KeyError"
            /\ n_pc' = "raised"
            /\ UNCHANGED <<n_imax, n_printed>>
       ELSE /\ n_imax' = idxmax(ValuesOf(n_dfm, n_mult))
            /\ n_printed' = Append(n_printed,
                   [what  |-> "maximum",
                    value |-> Format3(ColumnAt(n_dfm, n_coli)[n_imax']),
                    id    |-> n_oid[n_imax']])
            /\ n_pc' = "max"
            /\ UNCHANGED n_raised
    /\ UNCHANGED <<n_dfm, n_oid, n_mult, n_model, n_coli, n_imin, n_maps>>

\* imin = int(dfm[[mult]].idxmin()); print(f"The minimum is ...")
NbrMin ==
    /\ n_pc = "max"
    /\ n_imin' = idxmin(ValuesOf(n_dfm, n_mult))
    /\ n_printed' = Append(n_printed,
           [what  |-> "minimum",
            value |-> Format3(ColumnAt(n_dfm, n_coli)[n_imin']),
            id    |-> n_oid[n_imin']])
    /\ n_pc' = "min"
    /\ UNCHANGED <<n_dfm, n_oid, n_mult, n_model, n_coli, n_imax, n_maps,
                   n_raised>>

\* dfmap = pd.concat([dfs,dfm],axis=1); multmap(dfmap,column=mult,model=model)
NbrMap ==
    /\ n_pc = "min"
    /\ n_maps' = Append(n_maps,
           [column |-> n_mult,
            title  |-> <<"Spatial Multipliers for ", n_model>>,
            values |-> ValuesOf(n_dfm, n_mult)])
    /\ n_pc' = "returned"
    /\ UNCHANGED <<n_dfm, n_oid, n_mult, n_model, n_coli, n_imax, n_imin,
                   n_printed, n_raised>>

(***************************************************************************)
(* The cell that adds up, for one county, the weights it has in the rows    *)
(* of its neighbours: the inverse cardinalities of the neighbours.  A       *)
(* county is named by its position in the data frame.                      *)
(***************************************************************************)
VARIABLES
    e_pc,        \* "idle", "loop", "done"
    e_unit,      \* the county whose neighbours are listed
    e_nbrs,      \* nbrs
    e_cards,     \* cards
    e_pos,       \* position of the loop in nbrs
    e_i,         \* i, the neighbour of the current iteration
    e_u,         \* u
    e_j,         \* j, the running total
    e_printed,   \* what the cell has printed
    e_raised     \* exception that stopped the cell, or "none"

eonVars == <<e_pc, e_unit, e_nbrs, e_cards, e_pos, e_i, e_u, e_j, e_printed,
             e_raised>>

NoEon ==
    /\ e_pc = "idle"
    /\ e_unit = 0 /\ e_nbrs = <<>> /\ e_cards = <<>>
    /\ e_pos = 0 /\ e_i = 0 /\ e_u = 0 /\ e_j = Zero
    /\ e_printed = <<>> /\ e_raised = "none"

\* the neighbours of unit i that come before position k, in ascending order
RECURSIVE NeighboursBelow(_, _, _)
NeighboursBelow(A, i, k) ==
    IF k = 0 THEN <<>>
    ELSE IF A[i][k] = 1 THEN Append(NeighboursBelow(A, i, k - 1), k)
    ELSE NeighboursBelow(A, i, k - 1)

\* wq.neighbors[i]
neighbors(A, i) == NeighboursBelow(A, i, N)

\* cardinalities that count the unit itself
cardinalities_plusSelf(A) == Vec(LAMBDA i : RowSum(A, i) + 1)

\* wq.cardinalities: the number of neighbours of every unit
cardinalities(A) == Vec(LAMBDA i : RowSum(A, i))

\* nbrs = wq.neighbors[28131]; print("neighbor list ",nbrs);
\* cards = wq.cardinalities; j = 0; for i in nbrs:
CellEonLoop(unit) ==
    /\ pc = "queen"
    /\ e_pc \in {"idle", "done"}
    /\ e_unit' = unit
    /\ e_nbrs' = neighbors(wq, unit)
    /\ e_cards' = cardinalities(wq)
    /\ e_j' = Zero
    /\ e_pos' = 1
    /\ e_printed' = <<e_nbrs'>>
    /\ e_raised' = "none"
    /\ e_pc' = "loop"
    /\ UNCHANGED <<e_i, e_u>>

\* u = cards[i]; print(f"for {i}, ... weight {1.0/u:0.3f}"); j += 1.0/u
EonLoopBody ==
    /\ e_pc = "loop"
    /\ e_pos <= Len(e_nbrs)
    /\ e_i' = e_nbrs[e_pos]
    /\ e_u' = e_cards[e_i']
    /\ IF e_u' = 0
       THEN /\ e_raised' = "ZeroDivisionError"
            /\ e_pc' = "done"
            /\ UNCHANGED <<e_j, e_pos, e_printed>>
       ELSE /\ e_printed' = Append(e_printed, <<e_i', e_u', Format3(Rat(1, e_u'))>>)
            /\ e_j' = RAdd(e_j, Rat(1, e_u'))
            /\ e_pos' = e_pos + 1
            /\ UNCHANGED <<e_pc, e_raised>>
    /\ UNCHANGED <<e_unit, e_nbrs, e_cards>>

\* print(f"total effect on neighbors: {j:0.3f}")
EonLoopEnd ==
    /\ e_pc = "loop"
    /\ e_pos > Len(e_nbrs)
    /\ e_printed' = Append(e_printed, Format3(e_j))
    /\ e_pc' = "done"
    /\ UNCHANGED <<e_unit, e_nbrs, e_cards, e_pos, e_i, e_u, e_j, e_raised>>

(***************************************************************************)
(* The simulation cells of the specification-test notebook                  *)
(* (16_GMM_estimation_spatial_error.ipynb).  Rows and columns of an array   *)
(* are counted from 0, as in the code: an array is a function on 0..m-1.    *)
(* A value is a record: a known number [num |-> q], element `at` of a       *)
(* vector of random draws [draw |-> d, at |-> i], or a quantity taken from  *)
(* a regression on a simulated y [stat |-> s, y |-> y].  A vector of draws  *)
(* is named by the seed of its generator, the draws the generator had made  *)
(* before, the distribution and the size.                                   *)
(***************************************************************************)
reps == 3         \* number of replications
NumVals == 2      \* number of parameter values of an experiment

gridx == 20
gridy == 20
w_n == gridx * gridy             \* n = w.n
b1 == <<1, 1, 1, 1>>
kx == Len(b1) - 1                \* k = len(b1)-1
rndseed == 123456789
p_value == Rat(1, 20)

\* the first NumVals entries of rhovals, lamvals and gamvals
rhovals == SubSeq(<<Zero, Rat(1, 20), Rat(1, 10), Rat(3, 20)>>, 1, NumVals)
lamvals == SubSeq(<<Zero, Rat(1, 20), Rat(1, 10), Rat(3, 20)>>, 1, NumVals)
gamvals == SubSeq(<<Zero, Rat(1, 20), Rat(1, 10), Rat(3, 20)>>, 1, NumVals)

alltests ==
    <<"N01", "Chi2-1", "Chi2-2", "Chi2-k", "Chi2-kr", "Moran", "LM-Lag",
      "LM-Error", "LMWX", "LMSARER", "LMSDM">>

pvals ==
    <<"Moran", "LM-Lag", "LM-Error", "LMWX", "LMSARER", "LMSDM", "RLM-Lag",
      "RLM-Error", "RLMWX">>

VARIABLES
    s_cell,      \* the cell that runs or ran last: "none", "null", "lag", ...
    s_pc,        \* position in that cell
    best,        \* best
    rng,         \* rng: the generator, its seed and the draws it has made
    nn,          \* nn
    df,          \* df
    dff,         \* dff
    s_j,         \* j, and the position in the list [k,k+1]
    s_i,         \* i
    s_r,         \* r
    s_u,         \* u
    s_y,         \* y
    testres,     \* testres, and testp in the power cells
    writes,      \* how often each cell of best has been assigned
    results,     \* results
    powvals,     \* powvals; powresult is this array under column labels
    bestp,       \* bestp
    mm,          \* mm
    wxg1,        \* wxg1
    s_plotted,   \* the frames that have been plotted
    s_raised     \* exception that stopped the cell, or "none"

simVars == <<s_cell, s_pc, best, rng, nn, df, dff, s_j, s_i, s_r, s_u, s_y,
             testres, writes, results, powvals, bestp, mm, wxg1, s_plotted,
             s_raised>>

NoSim ==
    /\ s_cell = "none" /\ s_pc = "idle"
    /\ best = Unbound /\ rng = Unbound /\ nn = Unbound
    /\ df = Unbound /\ dff = Unbound
    /\ s_j = Unbound /\ s_i = Unbound /\ s_r = Unbound
    /\ s_u = Unbound /\ s_y = Unbound /\ testres = Unbound
    /\ writes = Unbound /\ results = Unbound /\ powvals = Unbound
    /\ bestp = Unbound /\ mm = Unbound /\ wxg1 = Unbound
    /\ s_plotted = <<>> /\ s_raised = "none"

Num(q) == [num |-> q]

\* np.zeros((rows, cols))
np_zeros(rows, cols) == [i \in 0..(rows - 1) |-> [c \in 0..(cols - 1) |-> Num(Zero)]]

\* np.random.default_rng(seed=seed)
default_rng(seed) == [seed |-> seed, drawn |-> <<>>]

\* the vector of `size` draws the generator g makes next
Draw(g, dist, par, size) ==
    [seed |-> g.seed, prior |-> g.drawn, dist |-> dist, par |-> par,
     size |-> size]

\* the generator after those draws
Advance(g, dist, par, size) ==
    [g EXCEPT !.drawn = Append(@, <<dist, par, size>>)]

\* column `col` of array B assigned the elements of the vector of draws d
SetColumn(B, col, d) ==
    [i \in DOMAIN B |-> [B[i] EXCEPT ![col] = [draw |-> d, at |-> i]]]

\* the count of assignments after an assignment to every row of column col
CountColumn(Wr, col) ==
    [i \in DOMAIN Wr |-> [Wr[i] EXCEPT ![col] = @ + 1]]

\* t0 = time.time(); alltests = [...]; best = np.zeros((reps,len(alltests)));
\* rng=np.random.default_rng(seed=rndseed)
CellNull ==
    /\ s_pc = "idle"
    /\ s_cell' = "null"
    /\ best' = np_zeros(reps, Len(alltests))
    /\ writes' = [i \in 0..(reps - 1) |-> [c \in 0..(Len(alltests) - 1) |-> 0]]
    /\ rng' = default_rng(rndseed)
    /\ s_pc' = "normal"
    /\ UNCHANGED <<nn, df, dff, s_j, s_i, s_r, s_u, s_y, testres, results,
                   powvals, bestp, mm, wxg1, s_plotted, s_raised>>

\* nn = make_error(rng,reps); best[:,0] = nn[:,0]
NullNormal ==
    /\ s_cell = "null" /\ s_pc = "normal"
    /\ nn' = Draw(rng, "normal", 0, reps)
    /\ rng' = Advance(rng, "normal", 0, reps)
    /\ best' = SetColumn(best, 0, nn')
    /\ writes' = CountColumn(writes, 0)
    /\ s_j' = 0
    /\ s_pc' = "chi"
    /\ UNCHANGED <<s_cell, df, dff, s_i, s_r, s_u, s_y, testres, results,
                   powvals, bestp, mm, wxg1, s_plotted, s_raised>>

\* for j in range(2): df = j+1; best[:,df] = rng.chisquare(df,reps)
NullChi ==
    /\ s_cell = "null" /\ s_pc = "chi"
    /\ df' = s_j + 1
    /\ best' = SetColumn(best, df', Draw(rng, "chisquare", df', reps))
    /\ writes' = CountColumn(writes, df')
    /\ rng' = Advance(rng, "chisquare", df', reps)
    /\ s_j' = IF s_j + 1 < 2 THEN s_j + 1 ELSE 0
    /\ s_pc' = IF s_j + 1 < 2 THEN "chi" ELSE "chik"
    /\ UNCHANGED <<s_cell, nn, dff, s_i, s_r, s_u, s_y, testres, results,
                   powvals, bestp, mm, wxg1, s_plotted, s_raised>>

\* df = df + 1
NextColumn(d, place) == d + 1

\* for dff in [k,k+1]: df = df + 1; best[:,df] = rng.chisquare(dff,reps)
NullChiK ==
    /\ s_cell = "null" /\ s_pc = "chik"
    /\ dff' = <<kx, kx + 1>>[s_j + 1]
    /\ df' = NextColumn(df, s_j)
    /\ best' = SetColumn(best, df', Draw(rng, "chisquare", dff', reps))
    /\ writes' = CountColumn(writes, df')
    /\ rng' = Advance(rng, "chisquare", dff', reps)
    /\ s_j' = s_j + 1
    /\ s_pc' = IF s_j + 1 < 2 THEN "chik" ELSE "reps"
    /\ s_i' = IF s_j + 1 < 2 THEN s_i ELSE 0
    /\ UNCHANGED <<s_cell, nn, s_r, s_u, s_y, testres, results,
                   powvals, bestp, mm, wxg1, s_plotted, s_raised>>

\* the quantity reg.attr[index] of the regression OLS(y, x1, w, ...)
Stat(attr, index, yy) == [stat |-> <<attr, index>>, y |-> yy]

\* testres = [reg.moran_res[1],reg.lm_lag[0],reg.lm_error[0],reg.lm_wx[0],
\* reg.lm_sarma[0],reg.lm_spdurbin[0]]
TestStatistics(yy) ==
    <<Stat("moran_res", 1, yy), Stat("lm_lag", 0, yy), Stat("lm_error", 0, yy),
      Stat("lm_wx", 0, yy), Stat("lm_sarma", 0, yy),
      Stat("lm_spdurbin", 0, yy)>>

\* a first column of the statistics that is one to the left
TestColumn_fromFour(jj) == jj + 4

\* jj+5
TestColumn(jj) == jj + 5

\* row i of B after best[i,jj+5] = testres[jj] for jj in range(len(testres))
RECURSIVE SetTests(_, _, _)
SetTests(row, tr, m) ==
    IF m = 0 THEN row
    ELSE [SetTests(row, tr, m - 1) EXCEPT ![TestColumn(m - 1)] = tr[m]]

RECURSIVE CountTests(_, _)
CountTests(row, m) ==
    IF m = 0 THEN row
    ELSE [CountTests(row, m - 1) EXCEPT ![TestColumn(m - 1)] = @ + 1]

\* for i in range(reps): u = make_error(rng,n); y = dgp_ols(u,xb1);
\* reg = OLS(...); testres = [...]; for jj in ...: best[i,jj+5] = testres[jj]
NullRep ==
    /\ s_cell = "null" /\ s_pc = "reps"
    /\ s_u' = Draw(rng, "normal", 0, w_n)
    /\ rng' = Advance(rng, "normal", 0, w_n)
    /\ s_y' = [dgp |-> "dgp_ols", u |-> s_u', par |-> Zero]
    /\ testres' = TestStatistics(s_y')
    /\ best' = [best EXCEPT ![s_i] = SetTests(@, testres', Len(testres'))]
    /\ writes' = [writes EXCEPT ![s_i] = CountTests(@, Len(testres'))]
    /\ s_i' = s_i + 1
    /\ s_pc' = IF s_i + 1 < reps THEN "reps" ELSE "frame"
    /\ UNCHANGED <<s_cell, nn, df, dff, s_j, s_r, results,
                   powvals, bestp, mm, wxg1, s_plotted, s_raised>>

\* results = pd.DataFrame(best,columns=alltests); results.describe()
NullEnd ==
    /\ s_cell = "null" /\ s_pc = "frame"
    /\ results' = [columns |-> alltests, values |-> best]
    /\ s_pc' = "done"
    /\ UNCHANGED <<s_cell, best, rng, nn, df, dff, s_j, s_i, s_r, s_u, s_y,
                   testres, writes, powvals, bestp, mm, wxg1, s_plotted,
                   s_raised>>

(***************************************************************************)
(* The power-function cells of the same notebook, for the lag, the error    *)
(* and the SLX alternative.  The p-values of a regression are not computed  *)
(* here: each replication takes one of a few vectors of p-values.           *)
(***************************************************************************)
Experiments == {"lag", "error", "slx"}

\* the list of parameter values of an experiment
ValuesOf16(e) ==
    CASE e = "lag" -> rhovals
      [] e = "error" -> lamvals
      [] e = "slx" -> gamvals

\* p-values a regression can give to the nine tests: all below the critical
\* value, all exactly at it, and below it for every other test and above it
\* for the rest
PValueVectors ==
    { [c \in 0..(Len(pvals) - 1) |-> Num(Rat(1, 100))],
      [c \in 0..(Len(pvals) - 1) |-> Num(p_value)],
      [c \in 0..(Len(pvals) - 1) |->
          IF c % 2 = 0 THEN Num(Rat(1, 100)) ELSE Num(Rat(1, 2))] }

\* pvals = [...]; t0 = time.time();
\* powvals = np.zeros((len(rhovals),len(pvals)+1)); powvals[:,0] = rhovals;
\* for r in range(len(rhovals)):
CellPower(e) ==
    /\ s_pc = "idle" \/ (s_pc = "done" /\ s_cell = "null")
    /\ s_cell' = e
    /\ powvals' =
          [r \in 0..(Len(ValuesOf16(e)) - 1) |->
              [c \in 0..Len(pvals) |->
                  IF c = 0 THEN Num(ValuesOf16(e)[r + 1]) ELSE Num(Zero)]]
    /\ s_r' = 0
    /\ s_pc' = "param"
    /\ UNCHANGED <<best, rng, nn, df, dff, s_j, s_i, s_u, s_y, testres,
                   writes, results, bestp, mm, wxg1, s_plotted, s_raised>>

\* a loop that keeps the generator it has, once it has one
rng_kept(g) == IF g = Unbound THEN default_rng(rndseed) ELSE g

\* rng=np.random.default_rng(seed=rndseed), inside the loop over r
rng_of_parameter(g) == default_rng(rndseed)

\* (SLX only: g = gamvals[r]; gg = [g for i in b1[0:-1]];
\* wxg1 = make_wxg(wx1,gg);) best = np.zeros((reps,len(pvals)));
\* rng=np.random.default_rng(seed=rndseed); for i in range(reps):
PowerParam ==
    /\ s_cell \in Experiments /\ s_pc = "param"
    /\ wxg1' = IF s_cell = "slx"
               THEN [wx |-> "wx1",
                     gamma |-> [c \in 1..kx |-> gamvals[s_r + 1]]]
               ELSE wxg1
    /\ best' = np_zeros(reps, Len(pvals))
    /\ rng' = rng_of_parameter(rng)
    /\ s_i' = 0
    /\ s_pc' = "rep"
    /\ UNCHANGED <<s_cell, nn, df, dff, s_j, s_r, s_u, s_y, testres, writes,
                   results, powvals, bestp, mm, s_plotted, s_raised>>

\* y = dgp_lag(u,xb1,w,rho=rhovals[r]), dgp_sperror(u,xb1,w,lam=lamvals[r])
\* or dgp_slx(u,xb1,wxg1)
SimulatedY(e, uu, r, wxg) ==
    CASE e = "lag" -> [dgp |-> "dgp_lag", u |-> uu, par |-> rhovals[r + 1]]
      [] e = "error" ->
            [dgp |-> "dgp_sperror", u |-> uu, par |-> lamvals[r + 1]]
      [] e = "slx" -> [dgp |-> "dgp_slx", u |-> uu, par |-> wxg]

\* u = make_error(rng,n); y = dgp_...(u, ...); reg = OLS(y,x1,w,...);
\* testp = [reg.moran_res[2], ...]; best[i,:] = testp
PowerRep(tp) ==
    /\ s_cell \in Experiments /\ s_pc = "rep"
    /\ s_u' = Draw(rng, "normal", 0, w_n)
    /\ rng' = Advance(rng, "normal", 0, w_n)
    /\ s_y' = SimulatedY(s_cell, s_u', s_r, wxg1)
    /\ testres' = tp
    /\ best' = [best EXCEPT ![s_i] = tp]
    /\ s_i' = s_i + 1
    /\ s_pc' = IF s_i + 1 < reps THEN "rep" ELSE "mean"
    /\ UNCHANGED <<s_cell, nn, df, dff, s_j, s_r, writes, results, powvals,
                   bestp, mm, wxg1, s_plotted, s_raised>>

\* a comparison that also counts a p-value equal to the critical value
Significant_orEqual(p) == IF RLe(p, p_value) THEN 1 ELSE 0

\* (best < p_value) * 1
Significant(p) == IF RLt(p, p_value) THEN 1 ELSE 0

RECURSIVE ColumnTotal(_, _, _)
ColumnTotal(B, c, m) ==
    IF m = 0 THEN 0 ELSE ColumnTotal(B, c, m - 1) + B[m - 1][c]

\* bestp.mean(axis=0)
ColumnMeans(B) ==
    [c \in 0..(Len(pvals) - 1) |-> Num(Rat(ColumnTotal(B, c, reps), reps))]

\* bestp = (best < p_value) * 1; mm = bestp.mean(axis=0); powvals[r,1:]= mm
PowerMean ==
    /\ s_cell \in Experiments /\ s_pc = "mean"
    /\ bestp' = [i \in 0..(reps - 1) |->
                    [c \in 0..(Len(pvals) - 1) |-> Significant(best[i][c].num)]]
    /\ mm' = ColumnMeans(bestp')
    /\ powvals' = [powvals EXCEPT ![s_r] =
                      [c \in 0..Len(pvals) |-> IF c = 0 THEN @[0] ELSE mm'[c - 1]]]
    /\ s_r' = s_r + 1
    /\ s_pc' = IF s_r + 1 < Len(ValuesOf16(s_cell)) THEN "param" ELSE "frame"
    /\ UNCHANGED <<s_cell, best, rng, nn, df, dff, s_j, s_i, s_u, s_y,
                   testres, writes, results, wxg1, s_plotted, s_raised>>

\* t1 = time.time(); powresult = pd.DataFrame(powvals,columns=["rho"]+pvals);
\* print(powresult)
PowerEnd ==
    /\ s_cell \in Experiments /\ s_pc = "frame"
    /\ s_pc' = "done"
    /\ UNCHANGED <<s_cell, best, rng, nn, df, dff, s_j, s_i, s_r, s_u, s_y,
                   testres, writes, results, powvals, bestp, mm, wxg1,
                   s_plotted, s_raised>>

(***************************************************************************)
(* The simulation cells of the Spatial Model Specifications notebook (the  *)
(* second notebook of 8_spatial_multipliers.ipynb): the SLX experiment,    *)
(* its plot, the Spatial Durbin experiment and its plot.  The cells use    *)
(* the names best, rng, wxg1, r, i, u, y and results of the simulation     *)
(* variables above.                                                        *)
(***************************************************************************)
\* gamvals = [0.1, 0.3, 0.5, 0.7, 0.9], the first NumVals of them
gamvals_models ==
    SubSeq(<<Rat(1, 10), Rat(3, 10), Rat(1, 2), Rat(7, 10), Rat(9, 10)>>,
           1, NumVals)

\* rhovals = [0, 0.2, 0.5, 0.7, 0.9], the first NumVals of them
rhovals_models ==
    SubSeq(<<Zero, Rat(1, 5), Rat(1, 2), Rat(7, 10), Rat(9, 10)>>, 1, NumVals)

\* gamma = 0.5
gamma == Rat(1, 2)

\* the names the notebook binds at top level before the Durbin cell: its
\* imports and the assignments of its cells
Namespace ==
    { "warnings", "np", "pd", "time", "plt", "sns", "weights",
      "OLS", "make_x", "make_xb", "make_wx", "make_wxg", "make_error",
      "dgp_lag", "dgp_sperror", "dgp_slx", "dgp_spdurbin",
      "gridx", "gridy", "b1", "rndseed", "reps", "rhovals", "lamvals",
      "gamvals", "gamma", "w", "n", "rng", "x1", "xb1", "wx1", "wxg1",
      "t0", "t1", "best", "results", "rr", "r", "i", "u", "y", "reg",
      "reslong" }

\* make_wxg(wx, g): the product of WX and the number (or list) g
make_wxg(wx, g) == [wx |-> wx, gamma |-> g]

\* the value of the loop index r as the number make_wxg multiplies with
IndexValue(r) == Rat(r, 1)

\* the values reg.betas[1] takes in the model
EstimateValues == {One, Rat(11, 10)}

\* t0 = time.time(); best = np.zeros((reps,len(gamvals)));
\* rng=np.random.default_rng(seed=rndseed); for r in range(len(gamvals)):
CellSLX ==
    /\ s_pc = "idle"
    /\ s_cell' = "SLX"
    /\ best' = np_zeros(reps, Len(gamvals_models))
    /\ rng' = default_rng(rndseed)
    /\ s_r' = 0
    /\ s_pc' = "param"
    /\ UNCHANGED <<nn, df, dff, s_j, s_i, s_u, s_y, testres, writes, results,
                   powvals, bestp, mm, wxg1, s_plotted, s_raised>>

\* wxg1 = make_wxg(wx1,r); for i in range(reps):
SLXParam ==
    /\ s_cell = "SLX" /\ s_pc = "param"
    /\ wxg1' = make_wxg("wx1", IndexValue(s_r))
    /\ s_i' = 0
    /\ s_pc' = "rep"
    /\ UNCHANGED <<s_cell, best, rng, nn, df, dff, s_j, s_r, s_u, s_y,
                   testres, writes, results, powvals, bestp, mm, s_plotted,
                   s_raised>>

\* u = make_error(rng,n); y = dgp_slx(u,xb1,wxg1);
\* reg = OLS(y,x1,nonspat_diag=False); best[i,r] = reg.betas[1]
SLXRep(b) ==
    /\ s_cell = "SLX" /\ s_pc = "rep"
    /\ s_u' = Draw(rng, "normal", 0, w_n)
    /\ rng' = Advance(rng, "normal", 0, w_n)
    /\ s_y' = [dgp |-> "dgp_slx", u |-> s_u', par |-> wxg1]
    /\ best' = [best EXCEPT ![s_i][s_r] = [est |-> b, y |-> s_y']]
    /\ IF s_i + 1 < reps
       THEN s_i' = s_i + 1 /\ s_r' = s_r /\ s_pc' = "rep"
       ELSE /\ s_i' = s_i
            /\ IF s_r + 1 < Len(gamvals_models)
               THEN s_r' = s_r + 1 /\ s_pc' = "param"
               ELSE s_r' = s_r /\ s_pc' = "frame"
    /\ UNCHANGED <<s_cell, nn, df, dff, s_j, testres, writes, results,
                   powvals, bestp, mm, wxg1, s_plotted, s_raised>>

\* the frame pd.DataFrame(B, columns=[prefix+str(v) for v in values])
DataFrame(B, prefix, values) ==
    [columns |-> [c \in 1..Len(values) |-> <<prefix, values[c]>>],
     data |-> B]

\* rr = ["gam"+str(r) for r in gamvals]; results = pd.DataFrame(best,columns=rr);
\* results.describe()
SLXFrame ==
    /\ s_cell = "SLX" /\ s_pc = "frame"
    /\ results' = DataFrame(best, "gam", gamvals_models)
    /\ s_pc' = "done"
    /\ UNCHANGED <<s_cell, best, rng, nn, df, dff, s_j, s_i, s_r, s_u, s_y,
                   testres, writes, powvals, bestp, mm, wxg1, s_plotted,
                   s_raised>>

\* reslong = results.melt(var_name=..., value_name='b'); sns.displot(...);
\* plt.show(): the cell after the SLX cell names the variable 'gam', the
\* cell after the Durbin cell names it 'rho'
CellPlot ==
    /\ s_cell \in {"SLX", "Durbin"} /\ s_pc \in {"done", "raised"}
    /\ s_plotted' =
          Append(s_plotted,
                 [var_name |-> IF s_cell = "SLX" THEN "gam" ELSE "rho",
                  frame |-> results])
    /\ s_pc' = "plotted"
    /\ UNCHANGED <<s_cell, best, rng, nn, df, dff, s_j, s_i, s_r, s_u, s_y,
                   testres, writes, results, powvals, bestp, mm, wxg1,
                   s_raised>>

\* t0 = time.time(); rng=np.random.default_rng(seed=rndseed);
\* wxg1 = dgp.make_wxg(wx1,gamma): the name dgp is looked up first, and the
\* cell ends there with a NameError when the notebook has not bound it; the
\* loops, rr and results of the cell follow that statement
CellDurbin ==
    /\ s_cell = "SLX" /\ s_pc \in {"done", "plotted"}
    /\ s_cell' = "Durbin"
    /\ rng' = default_rng(rndseed)
    /\ IF "dgp" \in Namespace
       THEN /\ wxg1' = make_wxg("wx1", gamma)
            /\ s_r' = 0 /\ s_i' = 0
            /\ s_pc' = "rep"
            /\ s_raised' = s_raised
       ELSE /\ s_raised' = "NameError"
            /\ s_pc' = "raised"
            /\ UNCHANGED <<wxg1, s_r, s_i>>
    /\ UNCHANGED <<best, nn, df, dff, s_j, s_u, s_y, testres, writes,
                   results, powvals, bestp, mm, s_plotted>>

vars ==
    <<multVars, nslxVars, kernelVars, transformVars, calcVars, nbrVars,
      eonVars,
      simVars>>

Init ==
    InitMult /\ InitNslx /\ InitKernel /\ NoTransform /\ NoCall /\ NoNbr
    /\ NoEon
    /\ NoSim

NextNSLX ==
    /\ \/ \E xs \in CoordSets : CellWexp(xs)
       \/ CellExp2
       \/ CellExp15
       \/ CellWinv
       \/ CellPow2
       \/ CellPow15
    /\ UNCHANGED <<multVars, kernelVars, transformVars, calcVars, nbrVars,
                   eonVars,
                   simVars>>

SpecNSLX == Init /\ [][NextNSLX]_vars

Next ==
    /\ \/ \E A \in WeightsFamily, t \in {"O", "r"} : CellQueen(A, t)
       \/ \E c \in Coefs : CellLag5(c)
       \/ CellLag3
    /\ UNCHANGED <<nslxVars, kernelVars, transformVars, calcVars, nbrVars,
                   eonVars,
                   simVars>>

Spec == Init /\ [][Next]_vars

\* the kernel cells, run in any order while no loop is running
NextKernel ==
    /\ \/ CellGrid
       \/ CellTri
       \/ CellP1
       \/ CellEpa
       \/ CellQuar
       \/ CellGauss
       \/ CellCompare
       \/ CellExpLoop
       \/ ExpLoopBody
       \/ ExpLoopEnd
       \/ CellPowLoop
       \/ PowLoopBody
       \/ PowLoopEnd
    /\ UNCHANGED <<multVars, nslxVars, transformVars, calcVars, nbrVars,
                   eonVars,
                   simVars>>

SpecKernel == Init /\ [][NextKernel]_vars

\* the negative exponential function called with any parameter and distance
NextTransform ==
    /\ ExponentialTransform
    /\ UNCHANGED <<multVars, nslxVars, kernelVars, calcVars, nbrVars,
                   eonVars,
                   simVars>>

TransformInit ==
    InitMult /\ InitNslx /\ InitKernel /\ InitTransform /\ NoCall /\ NoNbr
    /\ NoEon
    /\ NoSim

SpecTransform == TransformInit /\ [][NextTransform]_vars

\* the calculator called with any arguments
NextCalc ==
    /\ \/ Call
       \/ CallRelabelled
    /\ UNCHANGED <<multVars, nslxVars, kernelVars, transformVars, nbrVars,
                   eonVars,
                   simVars>>

CalcInit ==
    InitMult /\ InitNslx /\ InitKernel /\ NoTransform /\ InitCalc /\ NoNbr
    /\ NoEon
    /\ NoSim

SpecCalc == CalcInit /\ [][NextCalc]_vars

\* nbreffect called on a table of multipliers with any column name
NextNbr ==
    /\ \/ NbrSelect
       \/ NbrMax
       \/ NbrMin
       \/ NbrMap
    /\ UNCHANGED <<multVars, nslxVars, kernelVars, transformVars, calcVars,
                   eonVars,
                   simVars>>

NbrInit ==
    InitMult /\ InitNslx /\ InitKernel /\ NoTransform /\ NoCall /\ InitNbr
    /\ NoEon
    /\ NoSim

SpecNbr == NbrInit /\ [][NextNbr]_vars

\* the weights cell, then the cell of the inverse cardinalities for any county
NextEon ==
    /\ \/ \E A \in Contiguity, t \in {"O", "r"} :
             CellQueen(A, t) /\ UNCHANGED eonVars
       \/ \E unit \in Units : CellEonLoop(unit) /\ UNCHANGED multVars
       \/ EonLoopBody /\ UNCHANGED multVars
       \/ EonLoopEnd /\ UNCHANGED multVars
    /\ UNCHANGED <<nslxVars, kernelVars, transformVars, calcVars, nbrVars,
                   simVars>>

SpecEon == Init /\ [][NextEon]_vars

\* the null-distribution cell, and after it or on its own a power-function cell
NextSim ==
    /\ \/ CellNull
       \/ NullNormal
       \/ NullChi
       \/ NullChiK
       \/ NullRep
       \/ NullEnd
       \/ \E e \in Experiments : CellPower(e)
       \/ PowerParam
       \/ \E tp \in PValueVectors : PowerRep(tp)
       \/ PowerMean
       \/ PowerEnd
    /\ UNCHANGED <<multVars, nslxVars, kernelVars, transformVars, calcVars,
                   nbrVars, eonVars>>

SpecSim == Init /\ [][NextSim]_vars

NextModels ==
    /\ \/ CellSLX
       \/ SLXParam
       \/ \E b \in EstimateValues : SLXRep(b)
       \/ SLXFrame
       \/ CellPlot
       \/ CellDurbin
    /\ UNCHANGED <<multVars, nslxVars, kernelVars, transformVars, calcVars,
                   nbrVars, eonVars>>

SpecModels == Init /\ [][NextModels]_vars

(***************************************************************************)
(* Vocabulary of the multiplier claims.                                    *)
(***************************************************************************)
Called(t) == t.status = "ok"

\* every unit has at least one neighbour: after wq.transform = 'r' every row
\* of W sums to 1
NoIslands(A) == \A i \in Units : RowSum(A, i) > 0

\* every row of the matrix passed to the calculator sums to 1
UnitRowSums(W) == \A i \in Units : RSum(W[i], N) = One

\* mean(Direct) + mean(EofNbrs) = 1/(1 - coef): ADI + AII = ATI
LagIdentity(t, coef) ==
    MeanSum(t.Direct, t.EofNbrs) = RDiv(One, RSub(One, coef))

\* the two vectors order the units identically
SameOrder(u, v) ==
    \A i, j \in Units : RLt(u[i], u[j]) <=> RLt(v[i], v[j])

Ones == Vec(LAMBDA i : One)
Zeros == Vec(LAMBDA i : Zero)

\* the contiguity of the 4-unit ring: unit i touches i-1 and i+1 (mod 4)
RingContiguity ==
    << <<0, 1, 0, 1>>, <<1, 0, 1, 0>>, <<0, 1, 0, 1>>, <<1, 0, 1, 0>> >>

Half == Rat(1, 2)

\* the row-standardized ring: W[i][i-1] = W[i][i+1] = 0.5
RingW ==
    << <<Zero, Half, Zero, Half>>, <<Half, Zero, Half, Zero>>,
       <<Zero, Half, Zero, Half>>, <<Half, Zero, Half, Zero>> >>

(***************************************************************************)
(* C1.  Model 'lag', coef in {0.0, 0.3, 0.5, 0.7}, W row-standardized with  *)
(* every row summing to 1: the call returns a table and                     *)
(* mean(Direct) + mean(EofNbrs) = 1/(1 - coef).                             *)
(***************************************************************************)
C1_LagAverageTotalImpact ==
    (pc \in {"lag5", "lag3"} /\ transform = "r" /\ NoIslands(wq))
        => /\ rho \in Coefs
           /\ Called(lag5)
           /\ LagIdentity(lag5, rho)

\* a row-standardized W whose units differ, multiplied with coef = 0.7
C1_Witness ==
    /\ pc = "lag5" /\ transform = "r" /\ NoIslands(wq)
    /\ rho = Rat(7, 10)
    /\ Called(lag5)
    /\ \E i, j \in Units : lag5.Direct[i] # lag5.Direct[j]
    /\ MeanSum(lag5.Direct, lag5.EofNbrs) = Rat(10, 3)

C4_Original_IdentityForEveryW ==
    (pc \in {"lag5", "lag3"} /\ Called(lag5)) => LagIdentity(lag5, rho)

(***************************************************************************)
(* C4, amended.  ADI + AII = 1/(1 - coef) holds for every W, raw or         *)
(* row-standardized, all of whose rows sum to 1 (the call then succeeds     *)
(* for the coefficients 0.0, 0.3, 0.5, 0.7); it is not an invariant of a W  *)
(* whose rows do not sum to 1.                                              *)
(***************************************************************************)
C4_IdentityForUnitRowSums ==
    (pc \in {"lag5", "lag3"} /\ UnitRowSums(Weights(wq, transform)))
        => /\ Called(lag5) /\ LagIdentity(lag5, rho)
           /\ (pc = "lag3" => Called(lag3) /\ LagIdentity(lag3, Rat(3, 10)))

\* a raw, asymmetric W with unit row sums, multiplied with 0.7 and with 0.3
C4_Witness ==
    /\ pc = "lag3" /\ transform = "O" /\ UnitRowSums(Raw(wq))
    /\ \E i, j \in Units : wq[i][j] # wq[j][i]
    /\ rho = Rat(7, 10)
    /\ Called(lag5) /\ Called(lag3)
    /\ MeanSum(lag3.Direct, lag3.EofNbrs) = Rat(10, 7)
    /\ \E i, j \in Units : lag3.EonNbrs[i] # lag3.EonNbrs[j]

(***************************************************************************)
(* C5.  Model 'slx', W row-standardized with every row summing to 1:        *)
(* EofNbrs[i] = 1 for every unit, mean(EofNbrs) = 1 and mean(EonNbrs) = 1.  *)
(***************************************************************************)
C5_SlxMeansAreOne ==
    (pc # "data" /\ transform = "r" /\ NoIslands(wq))
        => /\ Called(queen)
           /\ queen.EofNbrs = Ones
           /\ Mean(queen.EofNbrs) = One
           /\ Mean(queen.EonNbrs) = One

\* an asymmetric neighbour structure whose effects on neighbours vary
C5_Witness ==
    /\ pc = "queen" /\ transform = "r" /\ NoIslands(wq)
    /\ \E i, j \in Units : wq[i][j] # wq[j][i]
    /\ Called(queen)
    /\ \E i, j \in Units : RLt(queen.EonNbrs[i], One) /\ RLt(One, queen.EonNbrs[j])
    /\ Mean(queen.EonNbrs) = One

(***************************************************************************)
(* C6.  Original statement: for every W in the row-standardized state       *)
(* (each row sums to 1 or is all-zero) the SLX means of EofNbrs and of      *)
(* EonNbrs equal 1.                                                         *)
(***************************************************************************)
C6_Original_MeansAreOneWithIslands ==
    (pc # "data" /\ transform = "r" /\ Called(queen))
        => Mean(queen.EofNbrs) = One /\ Mean(queen.EonNbrs) = One

NonIslands(A) == Cardinality({i \in Units : RowSum(A, i) > 0})

(***************************************************************************)
(* C6, amended.  For every W in the row-standardized state the SLX means    *)
(* of EofNbrs and of EonNbrs both equal the share of units whose row is     *)
(* not all-zero; a unit with an all-zero row has EofNbrs = 0, so the means  *)
(* equal 1 exactly when no row is all-zero.                                 *)
(***************************************************************************)
C6_MeansAreShareOfNonIslands ==
    (pc # "data" /\ transform = "r")
        => /\ Called(queen)
           /\ Mean(queen.EofNbrs) = Rat(NonIslands(wq), N)
           /\ Mean(queen.EonNbrs) = Rat(NonIslands(wq), N)
           /\ \A i \in Units :
                 queen.EofNbrs[i] = (IF RowSum(wq, i) = 0 THEN Zero ELSE One)
           /\ (Mean(queen.EofNbrs) = One <=> NoIslands(wq))

\* a row-standardized W with exactly one island among units that have neighbours
C6_Witness ==
    /\ pc = "queen" /\ transform = "r" /\ Called(queen)
    /\ NonIslands(wq) = N - 1
    /\ Mean(queen.EofNbrs) = Rat(N - 1, N)
    /\ Mean(queen.EonNbrs) # One

(***************************************************************************)
(* C7.  The 4x4 ring with model 'slx': Direct = [0,0,0,0],                  *)
(* EofNbrs = [1,1,1,1], EonNbrs = [1,1,1,1].                                *)
(***************************************************************************)
C7_RingSlx ==
    (pc # "data" /\ wq = RingContiguity /\ transform = "r")
        => /\ Weights(wq, transform) = RingW
           /\ Called(queen)
           /\ queen.Direct = <<Zero, Zero, Zero, Zero>>
           /\ queen.EofNbrs = <<One, One, One, One>>
           /\ queen.EonNbrs = <<One, One, One, One>>

C7_Witness ==
    /\ pc = "queen" /\ wq = RingContiguity /\ transform = "r"
    /\ Called(queen) /\ queen.id = fipsid
    /\ queen.EonNbrs = <<One, One, One, One>>

(***************************************************************************)
(* C8.  Original statement: on the 4x4 ring with model 'lag' and            *)
(* coef = 0.5, mean(Direct) is 1.333 to three decimals.                     *)
(***************************************************************************)
C8_Original_RingMeanDirect1333 ==
    (pc \in {"lag5", "lag3"} /\ wq = RingContiguity /\ transform = "r"
       /\ rho = Half /\ Called(lag5))
        => /\ RLe(Rat(13325, 10000), Mean(lag5.Direct))
           /\ RLt(Mean(lag5.Direct), Rat(13335, 10000))

(***************************************************************************)
(* C8, amended.  On the 4x4 ring with model 'lag' and coef = 0.5,           *)
(* mean(Direct) = 7/6 (1.167 to three decimals), mean(EofNbrs) =            *)
(* mean(EonNbrs) = 5/6, and the average total impact is 2.0.                *)
(***************************************************************************)
C8_RingLagMeans ==
    (pc \in {"lag5", "lag3"} /\ wq = RingContiguity /\ transform = "r"
       /\ rho = Half)
        => /\ Called(lag5)
           /\ Mean(lag5.Direct) = Rat(7, 6)
           /\ Mean(lag5.EofNbrs) = Rat(5, 6)
           /\ Mean(lag5.EonNbrs) = Rat(5, 6)
           /\ MeanSum(lag5.Direct, lag5.EofNbrs) = Rat(2, 1)

C8_Witness ==
    /\ pc = "lag5" /\ wq = RingContiguity /\ transform = "r" /\ rho = Half
    /\ Called(lag5)
    /\ lag5.Direct = <<Rat(7, 6), Rat(7, 6), Rat(7, 6), Rat(7, 6)>>

Clearly(x, y) == RLt(RAdd(x, Rat(1, 100)), y)

Grid == 1..GridNum
Steps == GridNum - 1

\* grid points strictly between 0 and 1
Interior == {k \in Grid : 1 < k /\ k < GridNum}

(***************************************************************************)
(* C9.  The kernels are the unscaled forms: at every grid point k/Steps,    *)
(* tri = 1 - z, epa = 1 - z^2 and quar = (1 - z^2)^2, with no 3/4 or 15/16  *)
(* factor (the value at z = 0 is 1), and the graphs' columns hold these     *)
(* arrays.                                                                  *)
(***************************************************************************)
C9_UnscaledKernels ==
    /\ Bound(tri) =>
          \A k \in Grid : tri[k] = Rat(Steps - (k - 1), Steps)
    /\ Bound(epa) =>
          /\ \A k \in Grid :
                epa[k] = Rat(Steps * Steps - (k - 1) * (k - 1), Steps * Steps)
          /\ epa[1] = One
          /\ p2 = <<z, epa>>
    /\ Bound(quar) =>
          /\ \A k \in Grid :
                LET n == Steps * Steps - (k - 1) * (k - 1)
                IN  quar[k] = Rat(n * n, Steps * Steps * Steps * Steps)
          /\ quar[1] = One
          /\ p3 = <<z, quar>>
    /\ Bound(p1) => p1 = <<z, tri>>

\* the three cells have run; half way the kernels are 1/2, 3/4 and 9/16
C9_Witness ==
    /\ pck = "idle"
    /\ Bound(tri) /\ Bound(epa) /\ Bound(quar)
    /\ z[(GridNum + 1) \div 2] = Rat(1, 2)
    /\ tri[(GridNum + 1) \div 2] = Rat(1, 2)
    /\ epa[(GridNum + 1) \div 2] = Rat(3, 4)
    /\ quar[(GridNum + 1) \div 2] = Rat(9, 16)

(***************************************************************************)
(* C10.  Original statement: at every z strictly between 0 and 1,           *)
(* quartic(z) >= epanechnikov(z).                                           *)
(***************************************************************************)
C10_Original_QuarticAboveEpanechnikov ==
    (Bound(epa) /\ Bound(quar)) =>
        \A k \in Interior : RLe(epa[k], quar[k])

(***************************************************************************)
(* C10, amended.  At every z in [0, 1], quartic(z) <= epanechnikov(z); the  *)
(* two are equal at z = 0 and z = 1 and the quartic is strictly smaller at  *)
(* every z strictly between.                                                *)
(***************************************************************************)
C10_QuarticBelowEpanechnikov ==
    (Bound(epa) /\ Bound(quar)) =>
        /\ \A k \in Grid : RLe(quar[k], epa[k])
        /\ \A k \in Interior : RLt(quar[k], epa[k])
        /\ quar[1] = epa[1] /\ quar[GridNum] = epa[GridNum]

\* both kernels computed and drawn in the comparison graph, where the
\* quartic column lies below the quadratic one at z = 1/4 and z = 3/4
C10_Witness ==
    /\ Bound(epa) /\ Bound(quar) /\ Bound(pall)
    /\ \E k, m \in Interior :
          /\ z[k] = Rat(1, 4) /\ z[m] = Rat(3, 4)
          /\ RLt(pall[4][k], pall[3][k])
          /\ RLt(pall[4][m], pall[3][m])

(***************************************************************************)
(* C11.  Original statement: quartic(z) = (1 - z^2)^2 exactly at every z,   *)
(* while quartic(z) = epanechnikov(z)^2 fails at some z of [0, 1].          *)
(***************************************************************************)
C11_Original_QuarticNotEpaSquared ==
    (Bound(epa) /\ Bound(quar)) =>
        /\ \A k \in Grid :
              LET n == Steps * Steps - (k - 1) * (k - 1)
              IN  quar[k] = Rat(n * n, Steps * Steps * Steps * Steps)
        /\ \E k \in Grid : quar[k] # RMul(epa[k], epa[k])

(***************************************************************************)
(* C11, amended.  At every z of [0, 1], quartic(z) = (1 - z^2)^2 exactly,   *)
(* and this is the square of epanechnikov(z): the two unscaled kernels      *)
(* differ at no z.                                                          *)
(***************************************************************************)
C11_QuarticIsEpaSquared ==
    (Bound(epa) /\ Bound(quar)) =>
        \A k \in Grid :
            /\ quar[k] = RMul(RSub(One, RMul(z[k], z[k])),
                              RSub(One, RMul(z[k], z[k])))
            /\ quar[k] = RMul(epa[k], epa[k])

\* both kernels computed; at z = 1/4 the quartic is 225/256, the square of
\* the quadratic kernel's 15/16
C11_Witness ==
    /\ Bound(epa) /\ Bound(quar)
    /\ \E k \in Grid :
          /\ z[k] = Rat(1, 4)
          /\ epa[k] = Rat(15, 16)
          /\ quar[k] = Rat(225, 256)

\* the array k holds a kernel over the grid g: it does not increase with the
\* distance, is 1 at distance 0 and 0 at distance 1
NonIncreasing(g, k) ==
    \A i, j \in Grid : RLe(g[i], g[j]) => RLe(k[j], k[i])

EndValues(g, k) ==
    \A i \in Grid : /\ g[i] = Zero => k[i] = One
                    /\ g[i] = One => k[i] = Zero

(***************************************************************************)
(* C12.  The triangular, quadratic and quartic kernels do not increase with *)
(* z on [0, 1], are 1 at z = 0 and 0 at z = 1, and the quadratic kernel is  *)
(* on or above the triangular one at every z.                               *)
(***************************************************************************)
C12_KernelsDecline ==
    /\ Bound(tri) => NonIncreasing(z, tri) /\ EndValues(z, tri)
    /\ Bound(epa) => NonIncreasing(z, epa) /\ EndValues(z, epa)
    /\ Bound(quar) => NonIncreasing(z, quar) /\ EndValues(z, quar)
    /\ (Bound(tri) /\ Bound(epa)) => \A i \in Grid : RLe(tri[i], epa[i])

\* the three kernels computed over a grid that runs from 0 to 1, the
\* quadratic kernel strictly above the triangular one inside
C12_Witness ==
    /\ Bound(tri) /\ Bound(epa) /\ Bound(quar)
    /\ z[1] = Zero /\ z[GridNum] = One
    /\ \A i \in Interior : RLt(z[i], z[i + 1]) /\ RLt(tri[i], epa[i])
    /\ RLt(quar[GridNum - 1], quar[2])

\* columns of a graph other than the first, which holds the distances
Columns(p) == 1..(Len(p) - 1)

(***************************************************************************)
(* C13.  With alpha = 0 neither parametric transform decays: the column of  *)
(* exp(-alpha*z) and the column of (1 - z)^alpha computed for alpha = 0 are *)
(* 1 at every z of the grid, z = 1 included, where the power is 0^0.        *)
(***************************************************************************)
C13_NoDecayAtAlphaZero ==
    /\ \A c \in Columns(p5) :
          a[c] = Zero => \A k \in Grid : p5[c + 1][k] = One
    /\ \A c \in Columns(p6) :
          a[c] = Zero => \A k \in Grid : p6[c + 1][k] = One

\* both loops have run to their end; the first parameter is 0 and its
\* columns are 1 at z = 1, where 1 - z = 0
C13_Witness ==
    /\ pck = "idle"
    /\ Len(p5) = Len(a_list) + 1 /\ Len(p6) = Len(a_list) + 1
    /\ a[1] = Zero
    /\ z[GridNum] = One /\ zz[GridNum] = Zero
    /\ p5[2][GridNum] = One
    /\ p6[2][GridNum] = One

(***************************************************************************)
(* C14.  For the inverse distance power function (1 - z)^alpha: the value   *)
(* at z = 1 is exactly 0 for every alpha > 0, and at every z strictly       *)
(* between 0 and 1 a larger alpha never gives a larger weight.              *)
(***************************************************************************)
C14_PowerDeclinesWithAlpha ==
    /\ \A c \in Columns(p6) :
          RLt(Zero, a[c]) =>
              \A k \in Grid : z[k] = One => p6[c + 1][k] = Zero
    /\ \A c, d \in Columns(p6) :
          RLt(a[c], a[d]) =>
              \A k \in Interior : RLe(p6[d + 1][k], p6[c + 1][k])

\* the power loop has run to its end over parameters that rise from 0 to 6;
\* half way the weights fall from column to column
C14_Witness ==
    /\ pck = "idle"
    /\ Len(p6) = Len(a_list) + 1
    /\ \A c \in Columns(p6) :
          /\ c > 1 => /\ RLt(a[c - 1], a[c])
                      /\ RLt(p6[c + 1][(GridNum + 1) \div 2],
                             p6[c][(GridNum + 1) \div 2])
                      /\ p6[c + 1][GridNum] = Zero

C15_WeightAboveOne ==
    /\ f_pc = "returned"
    /\ f_i = Rat(-1, 1)
    /\ f_z = One
    /\ f_raised = "none"
    /\ RLt(Rat(27, 10), f_expon)

(***************************************************************************)
(* Vocabulary of the claims about the calculator called on its own.        *)
(***************************************************************************)
NotSquare(W) == \E i \in 1..Len(W) : Len(W[i]) # Len(W)
WrongDimensions == NotSquare(c_w) \/ Len(c_id) # Len(c_w)
Recognized == c_model \in {"slx", "kernel", "lag", "exponential", "power"}

(***************************************************************************)
(* C16.  Invalid input is rejected and no table is returned: a W that is    *)
(* not square, or an id vector whose length is not the number of rows of W, *)
(* fails with DimensionMismatch, also where the computation itself would    *)
(* fail; a model string that is not recognized fails with UnsupportedModel. *)
(***************************************************************************)
C16_InvalidInputRejected ==
    c_pc = "returned" =>
        /\ (WrongDimensions /\ Recognized) => c_raised = "DimensionMismatch"
        /\ (~WrongDimensions /\ ~Recognized) => c_raised = "UnsupportedModel"
        /\ (WrongDimensions \/ ~Recognized) =>
              /\ c_raised \in {"DimensionMismatch", "UnsupportedModel"}
              /\ c_result = NoTable

\* a matrix of N - 1 rows and N columns passed with the N codes, for the lag
\* model at coef = 1: the call has failed with DimensionMismatch
C16_Witness ==
    /\ c_pc = "returned"
    /\ Len(c_w) = N - 1 /\ Len(c_w[1]) = N /\ Len(c_id) = N
    /\ c_model = "lag" /\ c_coef = One
    /\ c_raised = "DimensionMismatch"
    /\ c_result = NoTable

(***************************************************************************)
(* C17.  A column name outside Direct, EofNbrs, EonNbrs makes nbreffect     *)
(* fail with the invalid-column error, raised before any maximum or         *)
(* minimum is printed and before any map is drawn: nothing is put out.      *)
(***************************************************************************)
C17_InvalidColumnBeforeOutput ==
    (n_pc \notin {"idle", "called"}
        /\ n_mult \notin {"Direct", "EofNbrs", "EonNbrs"}) =>
            /\ n_pc = "raised"
            /\ n_raised = "Invalid column"
            /\ n_printed = <<>>
            /\ n_maps = <<>>

\* nbreffect has been called for the column "id", which the table has but
\* which is no multiplier, and has raised; nothing was printed or drawn
C17_Witness ==
    /\ n_pc = "raised"
    /\ n_mult = "id"
    /\ n_dfm.status = "ok"
    /\ n_raised = "Invalid column"
    /\ n_printed = <<>> /\ n_maps = <<>>

\* a call for the lag model whose arguments pass the checks and whose W has
\* unit row sums
LagCallOnUnitRows ==
    /\ c_pc = "returned"
    /\ c_model = "lag"
    /\ ~WrongDimensions
    /\ UnitRowSums(c_w)

OneRowPerUnit(t, id) ==
    /\ t.id = id
    /\ Len(t.Direct) = Len(id)
    /\ Len(t.EofNbrs) = Len(id)
    /\ Len(t.EonNbrs) = Len(id)

UnitDiagonal(W) == Square(W) /\ Len(W) = N /\ \A i \in Units : W[i][i] = One

\* sum of row i, and of column i, of W without the diagonal element
RowSumWithout(W, i) == RSum(Vec(LAMBDA j : IF j = i THEN Zero ELSE W[i][j]), N)
ColSumWithout(W, i) == RSum(Vec(LAMBDA r : IF r = i THEN Zero ELSE W[r][i]), N)

\* C21: for model 'kernel' on weights whose diagonal is 1, Direct is 1 for
\* every unit, so its mean is exactly 1, and EofNbrs and EonNbrs of a unit
\* are the sums of its row and of its column without the diagonal element.
C21_KernelDirectIsOne ==
    (/\ c_pc \in {"returned", "relabelled"}
     /\ c_model = "kernel"
     /\ UnitDiagonal(c_w)
     /\ Called(c_result)) =>
        /\ c_result.Direct = Ones
        /\ Mean(c_result.Direct) = One
        /\ \A i \in Units :
              /\ c_result.EofNbrs[i] = RowSumWithout(c_w, i)
              /\ c_result.EonNbrs[i] = ColSumWithout(c_w, i)

\* a kernel call has returned for weights with a unit diagonal that are not
\* symmetric: some unit's row sum differs from its column sum
C21_Witness ==
    /\ c_pc = "returned"
    /\ c_model = "kernel"
    /\ UnitDiagonal(c_w)
    /\ Called(c_result)
    /\ \E i \in Units :
          /\ RLt(Zero, c_result.EofNbrs[i])
          /\ c_result.EofNbrs[i] # c_result.EonNbrs[i]

\* C22: for every model and every square W, the effects of neighbours add
\* up over the units to what the effects on neighbours add up to, so the
\* means of the two columns coincide, also when W is not symmetric and the
\* two values of a unit differ.
C22_EofAndEonSameTotal ==
    (c_pc \in {"returned", "relabelled"} /\ Called(c_result)) =>
        /\ RSum(c_result.EofNbrs, N) = RSum(c_result.EonNbrs, N)
        /\ Mean(c_result.EofNbrs) = Mean(c_result.EonNbrs)

\* a lag call has returned a table in which some unit's effect of neighbours
\* differs from its effect on neighbours
C22_Witness ==
    /\ c_pc = "returned"
    /\ c_model = "lag"
    /\ Called(c_result)
    /\ \E i \in Units : c_result.EofNbrs[i] # c_result.EonNbrs[i]
    /\ \E i, j \in Units : c_w[i][j] # c_w[j][i]

(***************************************************************************)
(* C23.  Model 'lag' on a row-standardized W with every row summing to 1    *)
(* and |coef| < 1: every unit on its own has Direct + EofNbrs = 1/(1 -      *)
(* coef), so that of two units the one with the larger direct effect has   *)
(* the smaller effect of neighbours.                                       *)
(***************************************************************************)
\* Direct + EofNbrs of unit i
RowTotal(t, i) == RSum(<<t.Direct[i], t.EofNbrs[i]>>, 2)

C23_EveryRowTotalIsATI ==
    (pc \in {"lag5", "lag3"} /\ transform = "r" /\ NoIslands(wq)) =>
        /\ Called(lag5)
        /\ RLt(rho, One) /\ RLt(Rat(-1, 1), rho)
        /\ \A i \in Units : RowTotal(lag5, i) = RDiv(One, RSub(One, rho))
        /\ \A i, j \in Units :
              RLt(lag5.Direct[i], lag5.Direct[j])
                  <=> RLt(lag5.EofNbrs[j], lag5.EofNbrs[i])

\* a lag call with coef = 0.5 on a row-standardized W in which two units
\* differ in their direct effect
C23_Witness ==
    /\ pc = "lag5" /\ transform = "r" /\ NoIslands(wq)
    /\ rho = Half
    /\ Called(lag5)
    /\ \E i, j \in Units :
          /\ RLt(lag5.Direct[i], lag5.Direct[j])
          /\ RLt(lag5.EofNbrs[j], lag5.EofNbrs[i])
          /\ RowTotal(lag5, i) = Rat(2, 1)

(***************************************************************************)
(* C24.  For row-standardized weights of a symmetric contiguity relation    *)
(* the SLX effect on neighbours of a unit is the sum, over its neighbours,  *)
(* of the inverse of their cardinalities: the total the loop accumulates   *)
(* is EonNbrs of that unit, and exceeds 1 exactly when EonNbrs does.        *)
(***************************************************************************)
\* sum over the neighbours m of unit i of 1/cardinality(m)
InverseCardinalities(A, i) ==
    RSum(Vec(LAMBDA m : IF A[i][m] = 1 THEN Rat(1, RowSum(A, m)) ELSE Zero), N)

C24_LoopTotalIsEonNbrs ==
    (e_pc = "done" /\ transform = "r") =>
        /\ Called(queen)
        /\ e_raised = "none"
        /\ e_j = InverseCardinalities(wq, e_unit)
        /\ e_j = queen.EonNbrs[e_unit]
        /\ RLt(One, queen.EonNbrs[e_unit]) <=> RLt(One, e_j)

\* the loop has run over two or more neighbours of different cardinalities
\* and its total is above 1
C24_Witness ==
    /\ e_pc = "done" /\ transform = "r"
    /\ Len(e_nbrs) >= 2
    /\ \E m, k \in 1..Len(e_nbrs) : e_cards[e_nbrs[m]] # e_cards[e_nbrs[k]]
    /\ RLt(One, e_j)
    /\ e_j = queen.EonNbrs[e_unit]

(***************************************************************************)
(* C25.  nbreffect called for one of the three multipliers, on a table     *)
(* with a default row index and an id series in the table's row order:     *)
(* the maximum it reports is the largest value of that column with the id  *)
(* of the unit of the same row, the minimum the smallest; of several rows  *)
(* with that value it reports the first.                                   *)
(***************************************************************************)
Multipliers == {"Direct", "EofNbrs", "EonNbrs"}

\* row k is the first row of v that holds its largest (smallest) value
FirstLargest(v, k) ==
    /\ \A m \in 1..Len(v) : RLe(v[m], v[k])
    /\ \A m \in 1..(k - 1) : RLt(v[m], v[k])
FirstSmallest(v, k) ==
    /\ \A m \in 1..Len(v) : RLe(v[k], v[m])
    /\ \A m \in 1..(k - 1) : RLt(v[k], v[m])

C25_ExtremesWithTheirIds ==
    (n_pc \in {"min", "returned"} /\ n_mult \in Multipliers
        /\ n_oid = n_dfm.id) =>
        /\ Len(n_printed) = 2
        /\ n_printed[1].what = "maximum" /\ n_printed[2].what = "minimum"
        /\ \E k \in Units :
              /\ FirstLargest(n_dfm[n_mult], k)
              /\ n_printed[1].value = Format3(n_dfm[n_mult][k])
              /\ n_printed[1].id = n_dfm.id[k]
        /\ \E k \in Units :
              /\ FirstSmallest(n_dfm[n_mult], k)
              /\ n_printed[2].value = Format3(n_dfm[n_mult][k])
              /\ n_printed[2].id = n_dfm.id[k]

\* nbreffect has returned for EonNbrs of a lag table in which the largest
\* value is held by two rows, neither of them the first, and is not the
\* smallest
C25_Witness ==
    /\ n_pc = "returned" /\ n_mult = "EonNbrs" /\ n_model = "lag"
    /\ n_imax > 1
    /\ \E k \in Units :
          k > n_imax /\ n_dfm.EonNbrs[k] = n_dfm.EonNbrs[n_imax]
    /\ n_printed[1].id = fipsid[n_imax]
    /\ n_printed[1].value > n_printed[2].value
    /\ n_imin # n_imax

(***************************************************************************)
(* C26.  After the null-distribution cell each of the 11 columns of the    *)
(* results holds what its name announces and every cell has been written   *)
(* exactly once: column 0 standard normal draws, columns 1 and 2           *)
(* chi-square draws with 1 and 2 degrees of freedom, column 3 with k,      *)
(* column 4 with k+1, columns 5 to 10 the Moran, LM-Lag, LM-Error, LM-WX,  *)
(* LM-SARMA and LM-SDM statistics of replication i in row i.                *)
(***************************************************************************)
\* the draws of the reference distributions, in the order of their columns
ReferenceDraws ==
    << <<"normal", 0, reps>>, <<"chisquare", 1, reps>>,
       <<"chisquare", 2, reps>>, <<"chisquare", kx, reps>>,
       <<"chisquare", kx + 1, reps>> >>

\* element i of the reference draw of column c, c in 0..4
ReferenceValue(c, i) ==
    [draw |-> [seed |-> rndseed,
               prior |-> SubSeq(ReferenceDraws, 1, c),
               dist |-> ReferenceDraws[c + 1][1],
               par |-> ReferenceDraws[c + 1][2],
               size |-> reps],
     at |-> i]

\* the error vectors drawn before replication i of the null cell
RECURSIVE ErrorDraws(_)
ErrorDraws(i) ==
    IF i = 0 THEN <<>> ELSE Append(ErrorDraws(i - 1), <<"normal", 0, w_n>>)

\* y of replication i of the null cell
NullY(i) ==
    [dgp |-> "dgp_ols",
     u |-> [seed |-> rndseed, prior |-> ReferenceDraws \o ErrorDraws(i),
            dist |-> "normal", par |-> 0, size |-> w_n],
     par |-> Zero]

\* the attribute of the regression that a column name announces
Announced ==
    [c \in 5..10 |->
        CASE alltests[c + 1] = "Moran" -> "moran_res"
          [] alltests[c + 1] = "LM-Lag" -> "lm_lag"
          [] alltests[c + 1] = "LM-Error" -> "lm_error"
          [] alltests[c + 1] = "LMWX" -> "lm_wx"
          [] alltests[c + 1] = "LMSARER" -> "lm_sarma"
          [] alltests[c + 1] = "LMSDM" -> "lm_spdurbin"]

C26_NullColumnsAsNamed ==
    (s_cell = "null" /\ s_pc = "done") =>
        /\ results.columns = alltests
        /\ DOMAIN results.values = 0..(reps - 1)
        /\ \A i \in 0..(reps - 1) :
              /\ DOMAIN results.values[i] = 0..10
              /\ \A c \in 0..4 : results.values[i][c] = ReferenceValue(c, i)
              /\ \A c \in 5..10 :
                    results.values[i][c] =
                        [stat |-> <<Announced[c], IF c = 5 THEN 1 ELSE 0>>,
                         y |-> NullY(i)]
              /\ \A c \in 0..10 : writes[i][c] = 1

\* the cell has run to its end: the last row holds the statistics of the
\* last replication and the chi-square draw with k+1 degrees of freedom
C26_Witness ==
    /\ s_cell = "null" /\ s_pc = "done"
    /\ s_i = reps
    /\ results.values[reps - 1][10] = [stat |-> <<"lm_spdurbin", 0>>,
                                       y |-> NullY(reps - 1)]
    /\ results.values[reps - 1][4].draw.par = kx + 1
    /\ results.values[0][0].draw.dist = "normal"

(***************************************************************************)
(* C27.  In each power-function experiment row r of powvals holds the r-th  *)
(* parameter value in column 0 and, in column j+1, the number of            *)
(* replications whose p-value for test j is strictly below p_value,        *)
(* divided by reps; every rejection frequency lies between 0 and 1 and     *)
(* every row has been computed when the loop ends.                         *)
(***************************************************************************)
\* number of replications in B whose p-value for test c is below p_value
Rejections(B, c) ==
    Cardinality({i \in 0..(reps - 1) : RLt(B[i][c].num, p_value)})

C27_RejectionFrequencies ==
    (s_cell \in Experiments /\ s_pc \in {"param", "frame", "done"}) =>
        /\ DOMAIN powvals = 0..(Len(ValuesOf16(s_cell)) - 1)
        /\ \A r \in DOMAIN powvals :
              powvals[r][0] = Num(ValuesOf16(s_cell)[r + 1])
        /\ \A r \in 0..(s_r - 1) : \A c \in 1..Len(pvals) :
              /\ RLe(Zero, powvals[r][c].num)
              /\ RLe(powvals[r][c].num, One)
        /\ s_r > 0 =>
              \A c \in 0..(Len(pvals) - 1) :
                  powvals[s_r - 1][c + 1] = Num(Rat(Rejections(best, c), reps))
        /\ s_pc \in {"frame", "done"} => s_r = Len(ValuesOf16(s_cell))

\* the error experiment has ended; in its last parameter value one
\* replication had p-values below the critical value and another had them
\* exactly at it, and the frequency of the first test is 1/reps
C27_Witness ==
    /\ s_cell = "error" /\ s_pc = "done"
    /\ \E i \in 0..(reps - 1) : best[i][0].num = p_value
    /\ \E i \in 0..(reps - 1) : RLt(best[i][0].num, p_value)
    /\ powvals[s_r - 1][1] = Num(Rat(1, reps))
    /\ powvals[s_r - 1][0] = Num(lamvals[Len(lamvals)])

(***************************************************************************)
(* C28.  In the power-function experiments the generator is re-created     *)
(* from rndseed at the start of every parameter value, so the error vector *)
(* u of replication i is the i-th draw of n standard normal values from    *)
(* a generator seeded with rndseed, whatever the parameter value and       *)
(* whichever of the three experiments: it depends on i alone.              *)
(***************************************************************************)
\* the error vector of replication i drawn from a fresh generator
FreshError(i) ==
    [seed |-> rndseed, prior |-> ErrorDraws(i), dist |-> "normal", par |-> 0,
     size |-> w_n]

C28_SameErrorsForEveryParameter ==
    (s_cell \in Experiments /\ s_pc \in {"rep", "mean"} /\ s_i > 0) =>
        /\ s_u = FreshError(s_i - 1)
        /\ s_y.u = FreshError(s_i - 1)

\* the second replication of a later parameter value of the SLX experiment,
\* run after the null-distribution cell had used the generator
C28_Witness ==
    /\ s_cell = "slx" /\ s_pc = "rep" /\ s_r > 0 /\ s_i = 2
    /\ nn # Unbound
    /\ s_u = FreshError(1)

(***************************************************************************)
(* C29.  In the SLX experiment of the Spatial Model Specifications         *)
(* notebook the term WX*gamma of parameter index r is computed with        *)
(* gamma = gamvals[r]: every estimate in a column of the results frame     *)
(* comes from a y generated with the gamma of the column's label.          *)
(***************************************************************************)
C29_GammaOfTheColumnLabel ==
    /\ (s_cell = "SLX" /\ s_pc = "rep") =>
          wxg1.gamma = gamvals_models[s_r + 1]
    /\ (s_cell = "SLX" /\ s_pc \in {"done", "plotted"}) =>
          \A c \in 1..Len(results.columns) : \A i \in 0..(reps - 1) :
              results.data[i][c - 1].y.par.gamma = results.columns[c][2]

(***************************************************************************)
(* C30.  Run from top to bottom, the frame shown and plotted for the       *)
(* Spatial Durbin experiment holds only estimates of the Durbin loop: the  *)
(* cell raises nothing, WX*gamma is computed with gamma, every best[i, r]  *)
(* is overwritten with an estimate from dgp_spdurbin and the frame is      *)
(* labelled with rhovals.                                                  *)
(***************************************************************************)
C30_OnlyDurbinEstimates ==
    (s_cell = "Durbin" /\ s_pc \in {"done", "raised", "plotted"}) =>
        /\ s_raised = "none"
        /\ wxg1 = make_wxg("wx1", gamma)
        /\ \A i \in 0..(reps - 1) : \A r \in 0..(Len(rhovals_models) - 1) :
              best[i][r].y.dgp = "dgp_spdurbin"
        /\ results = DataFrame(best, "rho", rhovals_models)
        /\ \A k \in 1..Len(s_plotted) :
              s_plotted[k].var_name = "rho" =>
                  s_plotted[k].frame = DataFrame(best, "rho", rhovals_models)

====
